---------------------------- MODULE Spec2Model ----------------------------
(***************************************************************************)
(* Market-data retrieval layer: the canonical schema model, the shared     *)
(* HTTP transport and the seven exchange adapters' pagination loops and    *)
(* response -> table converters.                                           *)
(*                                                                         *)
(* Time is an integer.  Call arguments and the rows of millisecond-based   *)
(* exchanges are milliseconds; the rows of Kraken spot, Coinbase and       *)
(* Phemex klines are seconds.  A table's timestamp column holds instants,  *)
(* written here as milliseconds.  All times lie on a grid whose step is    *)
(* one Coinbase request window at the "1m" interval.  A row is            *)
(* represented by the value of its time field: the other fields of a row  *)
(* never influence pagination, filtering or ordering.                      *)
(***************************************************************************)
EXTENDS Integers, Sequences, FiniteSets, TLC

(***************************************************************************)
(* Bounds of the model.                                                    *)
(***************************************************************************)
\* largest grid index of a call argument or row time
MaxT == 2
\* the page limit the loops are run with (the code's `limit` / `count`)
Limit == 2
\* largest number of rows an exchange sends during one fetch
MaxRows == 4
\* largest number of requests one fetch is followed for
MaxReq == 3
\* largest grid index of a row held by the fixed-data exchange
MaxStoreT == 3
\* largest max_retries a transport client is configured with
MaxRetriesBound == 3
\* largest number of create_source calls followed
MaxCreates == 2

(***************************************************************************)
(* Program constants.                                                      *)
(***************************************************************************)
MsPerSec == 1000
_MAX_CANDLES == 300
Granularity1m == 60
\* BinanceBaseClient.__init__ : rate_limit_sleep = 0.1 s, in milliseconds
rate_limit_sleep == 100

Interval == "1m"
\* coinbase.py _INTERVAL_TO_GRANULARITY, phemex.py _INTERVAL_MAP,
\* both restricted to the interval the model fetches with
_INTERVAL_TO_GRANULARITY == [i \in {Interval} |-> Granularity1m]
PhemexResolution == [i \in {Interval} |-> Granularity1m]
\* Binance kline: close_time = open_time + interval - 1 (milliseconds)
IntervalMs == Granularity1m * MsPerSec

Tick == Granularity1m * _MAX_CANDLES * MsPerSec
Times == {k * Tick : k \in 0..MaxT}
StoreTimes == {k * Tick : k \in 0..MaxStoreT}

Min(a, b) == IF a <= b THEN a ELSE b
Range(s) == {s[i] : i \in 1..Len(s)}

(***************************************************************************)
(* Canonical schema model (domain/models.py).                              *)
(***************************************************************************)
DataTypes == {"OHLCV", "INDEX_PRICE", "MARK_PRICE", "FUNDING_RATE",
              "OPEN_INTEREST", "LONG_SHORT_RATIO", "TOP_LS_ACCOUNTS",
              "TOP_LS_POSITIONS", "TAKER_BUY_SELL"}

LsColumns == <<"timestamp", "symbol", "long_short_ratio", "long_account",
               "short_account">>
PriceColumns == <<"timestamp", "open", "high", "low", "close">>

_SCHEMAS ==
  [dt \in DataTypes |->
     CASE dt = "OHLCV" ->
            <<"timestamp", "open", "high", "low", "close", "volume",
              "close_time", "quote_volume", "trades",
              "taker_buy_volume", "taker_buy_quote_volume">>
       [] dt = "INDEX_PRICE" -> PriceColumns
       [] dt = "MARK_PRICE" -> PriceColumns
       [] dt = "FUNDING_RATE" ->
            <<"timestamp", "symbol", "funding_rate", "mark_price">>
       [] dt = "OPEN_INTEREST" ->
            <<"timestamp", "symbol", "open_interest", "open_interest_value">>
       [] dt = "LONG_SHORT_RATIO" -> LsColumns
       [] dt = "TOP_LS_ACCOUNTS" -> LsColumns
       [] dt = "TOP_LS_POSITIONS" -> LsColumns
       [] dt = "TAKER_BUY_SELL" ->
            <<"timestamp", "buy_sell_ratio", "buy_vol", "sell_vol">>]

\* DataType.columns
Columns(dt) == _SCHEMAS[dt]

_INTERVAL_TYPES == {"OHLCV", "INDEX_PRICE", "MARK_PRICE"}

Mut__PERIOD_TYPES ==
  {"FUNDING_RATE", "OPEN_INTEREST", "LONG_SHORT_RATIO", "TOP_LS_ACCOUNTS",
   "TOP_LS_POSITIONS", "TAKER_BUY_SELL"}

_PERIOD_TYPES ==
  {"OPEN_INTEREST", "LONG_SHORT_RATIO", "TOP_LS_ACCOUNTS",
   "TOP_LS_POSITIONS", "TAKER_BUY_SELL"}

\* DataType.uses_interval, DataType.uses_period
uses_interval(dt) == dt \in _INTERVAL_TYPES
uses_period(dt) == dt \in _PERIOD_TYPES

(***************************************************************************)
(* pandas column operations used by the converters.  A frame's columns are *)
(* a sequence of names; KeyErr stands for the KeyError pandas raises.      *)
(***************************************************************************)
KeyErr == <<"#KeyError">>

\* df.drop(columns=[c])
DropCol(cols, c) == SelectSeq(cols, LAMBDA x : x # c)

\* df[c] = value : overwrite in place, or append a new last column
SetCol(cols, c) == IF c \in Range(cols) THEN cols ELSE Append(cols, c)

RECURSIVE SetCols(_, _)
SetCols(cols, cs) ==
  IF cs = <<>> THEN cols ELSE SetCols(SetCol(cols, Head(cs)), Tail(cs))

\* df.rename(columns={from: to})
RenameCol(cols, from, to) ==
  [i \in 1..Len(cols) |-> IF cols[i] = from THEN to ELSE cols[i]]

\* df[[...wanted...]] : the wanted columns in the wanted order
SelectCols(cols, wanted) ==
  IF Range(wanted) \subseteq Range(cols) THEN wanted ELSE KeyErr

(***************************************************************************)
(* Column lists of the frames the converters build from a non-empty raw    *)
(* list.  Each follows its converter statement by statement.               *)
(***************************************************************************)
\* binance.py _klines_to_df : the 12 raw kline fields, "_ignore" dropped
BinanceKlineRawCols ==
  <<"timestamp", "open", "high", "low", "close", "volume",
    "close_time", "quote_volume", "trades",
    "taker_buy_volume", "taker_buy_quote_volume", "_ignore">>

Mut_BinanceKlinesCols(include_extra) ==
  IF include_extra THEN BinanceKlineRawCols
  ELSE SelectCols(BinanceKlineRawCols, PriceColumns)

BinanceKlinesCols(include_extra) ==
  LET df == DropCol(BinanceKlineRawCols, "_ignore")
  IN  IF include_extra THEN df ELSE SelectCols(df, PriceColumns)

\* binance.py _records_to_ls_df
BinanceLsCols ==
  LET raw == <<"symbol", "longShortRatio", "longAccount", "shortAccount",
               "timestamp">>
      df == RenameCol(RenameCol(RenameCol(raw,
              "longShortRatio", "long_short_ratio"),
              "longAccount", "long_account"),
              "shortAccount", "short_account")
  IN  SelectCols(df, <<"timestamp", "symbol", "long_short_ratio",
                       "long_account", "short_account">>)

\* binance.py _fetch_funding_rate
BinanceFundingCols ==
  LET raw == <<"symbol", "fundingTime", "fundingRate", "markPrice">>
      df == RenameCol(RenameCol(RenameCol(raw,
              "fundingTime", "timestamp"),
              "fundingRate", "funding_rate"),
              "markPrice", "mark_price")
  IN  SelectCols(df, <<"timestamp", "symbol", "funding_rate", "mark_price">>)

\* binance.py _fetch_open_interest
BinanceOiCols ==
  LET raw == <<"symbol", "sumOpenInterest", "sumOpenInterestValue",
               "timestamp">>
      df == RenameCol(RenameCol(raw,
              "sumOpenInterest", "open_interest"),
              "sumOpenInterestValue", "open_interest_value")
  IN  SelectCols(df, <<"timestamp", "symbol", "open_interest",
                       "open_interest_value">>)

\* binance.py _fetch_taker_buy_sell
BinanceTakerCols ==
  LET raw == <<"buySellRatio", "buyVol", "sellVol", "timestamp">>
      df == RenameCol(RenameCol(RenameCol(raw,
              "buySellRatio", "buy_sell_ratio"),
              "buyVol", "buy_vol"),
              "sellVol", "sell_vol")
  IN  SelectCols(df, <<"timestamp", "buy_sell_ratio", "buy_vol", "sell_vol">>)

\* bybit.py _klines_to_ohlcv_df : one dict per row, then df[OHLCV.columns]
BybitOhlcvCols ==
  LET df == <<"timestamp", "open", "high", "low", "close", "volume",
              "close_time", "quote_volume", "trades",
              "taker_buy_volume", "taker_buy_quote_volume">>
  IN  SelectCols(df, Columns("OHLCV"))

\* bybit.py _klines_to_price_df (index and mark price alike)
BybitPriceCols ==
  LET df == <<"timestamp", "open", "high", "low", "close">>
  IN  SelectCols(df, Columns("INDEX_PRICE"))

\* bybit.py _fetch_funding_rate
BybitFundingCols ==
  LET df == <<"timestamp", "symbol", "funding_rate", "mark_price">>
  IN  SelectCols(df, Columns("FUNDING_RATE"))

\* bybit.py _fetch_open_interest
BybitOiCols ==
  LET df == <<"timestamp", "symbol", "open_interest", "open_interest_value">>
  IN  SelectCols(df, Columns("OPEN_INTEREST"))

\* bybit.py _fetch_long_short_ratio
BybitLsCols ==
  LET df == <<"timestamp", "symbol", "long_short_ratio", "long_account",
              "short_account">>
  IN  SelectCols(df, Columns("LONG_SHORT_RATIO"))

\* okx.py _klines_to_ohlcv_df
OkxOhlcvCols ==
  LET raw == <<"timestamp", "open", "high", "low", "close", "volume",
               "volCcy", "quote_volume", "confirm">>
      df == SetCols(raw, <<"timestamp", "close_time", "open", "high", "low",
                           "close", "volume", "quote_volume", "trades",
                           "taker_buy_volume", "taker_buy_quote_volume">>)
  IN  SelectCols(df, Columns("OHLCV"))

\* okx.py _klines_to_price_df
OkxPriceCols ==
  LET raw == <<"timestamp", "open", "high", "low", "close",
               "_vol", "_volCcy", "_volCcyQuote", "_confirm">>
  IN  SelectCols(raw, <<"timestamp", "open", "high", "low", "close">>)

\* okx.py _fetch_funding_rate
OkxFundingCols ==
  LET raw == <<"instId", "fundingRate", "realizedRate", "fundingTime">>
      df == SetCols(RenameCol(RenameCol(raw,
              "fundingTime", "timestamp"),
              "fundingRate", "funding_rate"),
              <<"timestamp", "funding_rate", "symbol", "mark_price">>)
  IN  SelectCols(df, Columns("FUNDING_RATE"))

\* okx.py _fetch_open_interest
OkxOiCols ==
  LET df == SetCols(<<"ts", "oi", "oiCcy">>,
              <<"timestamp", "open_interest", "open_interest_value",
                "symbol">>)
  IN  SelectCols(df, Columns("OPEN_INTEREST"))

\* okx.py _fetch_long_short_ratio
OkxLsCols ==
  LET df == SetCols(<<"ts", "ratio">>,
              <<"timestamp", "long_short_ratio", "long_account",
                "short_account", "symbol">>)
  IN  SelectCols(df, Columns("LONG_SHORT_RATIO"))

\* okx.py _fetch_taker_buy_sell
OkxTakerCols ==
  LET df == SetCols(<<"ts", "sellVol", "buyVol">>,
              <<"timestamp", "buy_vol", "sell_vol", "buy_sell_ratio">>)
  IN  SelectCols(df, Columns("TAKER_BUY_SELL"))

\* kraken.py _ohlcv_to_df
KrakenOhlcvCols ==
  LET raw == <<"timestamp", "open", "high", "low", "close",
               "vwap", "volume", "count">>
      df == SetCols(raw, <<"timestamp", "open", "high", "low", "close",
                           "volume", "trades", "close_time", "quote_volume",
                           "taker_buy_volume", "taker_buy_quote_volume">>)
  IN  SelectCols(df, Columns("OHLCV"))

\* kraken.py _fetch_funding_rate
KrakenFundingCols ==
  LET raw == <<"timestamp", "fundingRate", "relativeFundingRate">>
      df == SetCols(RenameCol(SetCol(raw, "timestamp"),
              "fundingRate", "funding_rate"),
              <<"funding_rate", "symbol", "mark_price">>)
  IN  SelectCols(df, Columns("FUNDING_RATE"))

\* coinbase.py _candles_to_df
CoinbaseOhlcvCols ==
  LET raw == <<"time", "low", "high", "open", "close", "volume">>
      df == SetCols(raw, <<"timestamp", "open", "high", "low", "close",
                           "volume", "close_time", "quote_volume", "trades",
                           "taker_buy_volume", "taker_buy_quote_volume">>)
  IN  SelectCols(df, Columns("OHLCV"))

\* phemex.py _klines_to_df
PhemexOhlcvCols ==
  LET df == <<"timestamp", "open", "high", "low", "close", "volume",
              "close_time", "quote_volume", "trades",
              "taker_buy_volume", "taker_buy_quote_volume">>
  IN  SelectCols(df, Columns("OHLCV"))

\* phemex.py _fetch_funding_rate
PhemexFundingCols ==
  LET raw == <<"symbol", "fundingRate", "fundingTime", "intervalSeconds">>
      df == SetCols(RenameCol(RenameCol(raw,
              "fundingTime", "timestamp"),
              "fundingRate", "funding_rate"),
              <<"timestamp", "funding_rate", "symbol", "mark_price">>)
  IN  SelectCols(df, Columns("FUNDING_RATE"))

\* upbit.py _candles_to_df : a new frame, one assignment per column
UpbitOhlcvCols ==
  SetCols(<<>>, <<"timestamp", "open", "high", "low", "close", "volume",
                  "close_time", "quote_volume", "trades",
                  "taker_buy_volume", "taker_buy_quote_volume">>)

\* What the converter of (ex, dt) puts into column c of a non-empty frame:
\* "field" a field of the exchange's row, "arg" the symbol argument, "null"
\* None / NaN / NaT, "zero" the constant 0, "copy" another column of the
\* frame, "derived" an expression over other columns' values.
ColumnFill(ex, dt, c) ==
  LET ohlcv == dt = "OHLCV"
      taker == c \in {"taker_buy_volume", "taker_buy_quote_volume"}
  IN  CASE ex = "binance" -> "field"
        [] ex = "bybit" ->
             ( CASE ohlcv /\ (c = "close_time" \/ taker) -> "null"
                 [] ohlcv /\ c = "trades" -> "zero"
                 [] dt = "FUNDING_RATE" /\ c = "mark_price" -> "null"
                 [] dt = "OPEN_INTEREST" /\ c = "symbol" -> "arg"
                 [] dt = "OPEN_INTEREST" /\ c = "open_interest_value" -> "null"
                 [] dt = "LONG_SHORT_RATIO" /\ c = "long_short_ratio" ->
                      "derived"
                 [] OTHER -> "field" )
        [] ex = "okx" ->
             ( CASE ohlcv /\ c = "close_time" -> "copy"
                 [] ohlcv /\ c = "trades" -> "zero"
                 [] ohlcv /\ taker -> "null"
                 [] c = "symbol" -> "arg"
                 [] dt = "FUNDING_RATE" /\ c = "mark_price" -> "null"
                 [] dt = "LONG_SHORT_RATIO"
                      /\ c \in {"long_account", "short_account"} -> "derived"
                 [] dt = "TAKER_BUY_SELL" /\ c = "buy_sell_ratio" -> "derived"
                 [] OTHER -> "field" )
        [] ex = "kraken" ->
             ( CASE ohlcv /\ (c \in {"close_time", "quote_volume"} \/ taker) ->
                      "null"
                 [] c = "symbol" -> "arg"
                 [] dt = "FUNDING_RATE" /\ c = "mark_price" -> "null"
                 [] OTHER -> "field" )
        [] ex = "coinbase" ->
             ( CASE c \in {"close_time", "quote_volume"} \/ taker -> "null"
                 [] c = "trades" -> "zero"
                 [] OTHER -> "field" )
        [] ex = "phemex" ->
             ( CASE ohlcv /\ (c = "close_time" \/ taker) -> "null"
                 [] ohlcv /\ c = "trades" -> "zero"
                 [] c = "symbol" -> "arg"
                 [] dt = "FUNDING_RATE" /\ c = "mark_price" -> "null"
                 [] OTHER -> "field" )
        [] ex = "upbit" ->
             ( CASE c = "close_time" \/ taker -> "null"
                 [] c = "trades" -> "zero"
                 [] OTHER -> "field" )

(***************************************************************************)
(* Dispatch: the data types each adapter's fetch() routes to a handler,    *)
(* and the pagination loop and converter each handler uses.                *)
(***************************************************************************)
Exchanges == {"binance", "bybit", "okx", "kraken", "coinbase", "phemex",
              "upbit"}

Mut_Dispatcher(ex) ==
  CASE ex = "binance" -> DataTypes
    [] ex = "bybit" -> {"OHLCV", "INDEX_PRICE", "MARK_PRICE", "FUNDING_RATE",
                        "OPEN_INTEREST", "LONG_SHORT_RATIO"}
    [] ex = "okx" -> {"OHLCV", "INDEX_PRICE", "MARK_PRICE", "FUNDING_RATE",
                      "OPEN_INTEREST", "LONG_SHORT_RATIO", "TAKER_BUY_SELL"}
    [] ex = "kraken" -> {"OHLCV", "FUNDING_RATE"}
    [] ex = "coinbase" -> {"OHLCV"}
    [] ex = "phemex" -> {"OHLCV", "FUNDING_RATE"}
    [] ex = "upbit" -> {"OHLCV", "FUNDING_RATE"}

Dispatcher(ex) ==
  CASE ex = "binance" -> DataTypes
    [] ex = "bybit" -> {"OHLCV", "INDEX_PRICE", "MARK_PRICE", "FUNDING_RATE",
                        "OPEN_INTEREST", "LONG_SHORT_RATIO"}
    [] ex = "okx" -> {"OHLCV", "INDEX_PRICE", "MARK_PRICE", "FUNDING_RATE",
                      "OPEN_INTEREST", "LONG_SHORT_RATIO", "TAKER_BUY_SELL"}
    [] ex = "kraken" -> {"OHLCV", "FUNDING_RATE"}
    [] ex = "coinbase" -> {"OHLCV"}
    [] ex = "phemex" -> {"OHLCV", "FUNDING_RATE"}
    [] ex = "upbit" -> {"OHLCV"}

KlineTypes == {"OHLCV", "INDEX_PRICE", "MARK_PRICE"}

\* the pagination helper the handler of (ex, dt) calls
LoopOf(ex, dt) ==
  CASE ex = "binance" ->
         IF dt \in KlineTypes THEN "binance_klines" ELSE "binance_records"
    [] ex = "bybit" ->
         IF dt \in KlineTypes THEN "bybit_klines"
         ELSE IF dt = "FUNDING_RATE" THEN "bybit_funding"
         ELSE IF dt = "OPEN_INTEREST" THEN "bybit_oi"
         ELSE "bybit_ls"
    [] ex = "okx" ->
         IF dt \in KlineTypes THEN "okx_klines"
         ELSE IF dt = "FUNDING_RATE" THEN "okx_funding"
         ELSE "okx_rubik"
    [] ex = "kraken" ->
         IF dt = "OHLCV" THEN "kraken_ohlc" ELSE "kraken_funding"
    [] ex = "coinbase" -> "coinbase_candles"
    [] ex = "phemex" ->
         IF dt = "OHLCV" THEN "phemex_klines" ELSE "phemex_funding"
    [] ex = "upbit" -> "upbit_candles"

\* the column list the handler of (ex, dt) gives a non-empty frame
FrameCols(ex, dt) ==
  CASE ex = "binance" ->
         ( CASE dt = "OHLCV" -> BinanceKlinesCols(TRUE)
             [] dt \in {"INDEX_PRICE", "MARK_PRICE"} -> BinanceKlinesCols(FALSE)
             [] dt = "FUNDING_RATE" -> BinanceFundingCols
             [] dt = "OPEN_INTEREST" -> BinanceOiCols
             [] dt = "TAKER_BUY_SELL" -> BinanceTakerCols
             [] OTHER -> BinanceLsCols )
    [] ex = "bybit" ->
         ( CASE dt = "OHLCV" -> BybitOhlcvCols
             [] dt \in {"INDEX_PRICE", "MARK_PRICE"} -> BybitPriceCols
             [] dt = "FUNDING_RATE" -> BybitFundingCols
             [] dt = "OPEN_INTEREST" -> BybitOiCols
             [] OTHER -> BybitLsCols )
    [] ex = "okx" ->
         ( CASE dt = "OHLCV" -> OkxOhlcvCols
             [] dt \in {"INDEX_PRICE", "MARK_PRICE"} -> OkxPriceCols
             [] dt = "FUNDING_RATE" -> OkxFundingCols
             [] dt = "OPEN_INTEREST" -> OkxOiCols
             [] dt = "LONG_SHORT_RATIO" -> OkxLsCols
             [] OTHER -> OkxTakerCols )
    [] ex = "kraken" ->
         IF dt = "OHLCV" THEN KrakenOhlcvCols ELSE KrakenFundingCols
    [] ex = "coinbase" -> CoinbaseOhlcvCols
    [] ex = "phemex" ->
         IF dt = "OHLCV" THEN PhemexOhlcvCols ELSE PhemexFundingCols
    [] ex = "upbit" -> UpbitOhlcvCols

\* exchanges whose row times are seconds (pd.to_datetime(..., unit="s"))
SecondLoops == {"kraken_ohlc", "coinbase_candles", "phemex_klines"}

\* handlers that sort the frame (sort_values) after pagination
Mut_FrameSortLoops == {"bybit_oi", "bybit_ls", "coinbase_candles",
                       "upbit_candles", "binance_klines", "kraken_ohlc"}

FrameSortLoops == {"bybit_oi", "bybit_ls", "coinbase_candles",
                   "upbit_candles"}

(***************************************************************************)
(* list.sort(key=timestamp) / DataFrame.sort_values("timestamp"): a stable *)
(* ascending sort, here by insertion.                                      *)
(***************************************************************************)
RECURSIVE InsertAsc(_, _)
InsertAsc(s, x) ==
  IF s = <<>> THEN <<x>>
  ELSE IF x < Head(s) THEN <<x>> \o s
  ELSE <<Head(s)>> \o InsertAsc(Tail(s), x)

RECURSIVE SortFrom(_, _)
SortFrom(done, rest) ==
  IF rest = <<>> THEN done
  ELSE SortFrom(InsertAsc(done, Head(rest)), Tail(rest))

Mut_SortAsc(s) == s

SortAsc(s) == SortFrom(<<>>, s)

\* pd.to_datetime(column, unit=...) : the instant of a row time, in ms
Instant(loop, t) == IF loop \in SecondLoops THEN t * MsPerSec ELSE t

\* pd.DataFrame() : the frame every converter returns for an empty raw list
EmptyFrame == [columns |-> <<>>, rows |-> <<>>]

\* the handler's conversion of the raw list its pagination helper returned
ToFrame(ex, dt, raw) ==
  IF raw = <<>> THEN EmptyFrame
  ELSE LET loop == LoopOf(ex, dt)
           ts == [i \in 1..Len(raw) |-> Instant(loop, raw[i])]
       IN  [columns |-> FrameCols(ex, dt),
            rows |-> IF loop \in FrameSortLoops THEN SortAsc(ts) ELSE ts]

(***************************************************************************)
(* State.                                                                  *)
(***************************************************************************)
VARIABLES
  pc,          \* "idle" | "paging" | "done" | "raised" : where fetch() is
  call,        \* the arguments of the running (or last) fetch()
  cursor,      \* the loop's cursor local (current, current_end, cursor, ...)
  all_data,    \* the loop's accumulation list
  reqs,        \* the requests this fetch() has issued, in order
  resps,       \* the responses it has received, in order
  table,       \* the frame fetch() returned (NoTable until it returns)
  args,        \* its symbol and interval, and what kind of value each time is
  error,       \* the exception fetch() raised (NoError for none)
  mode,        \* how the exchange answers: "free" | "fixed" | "replay"
  store,       \* "fixed": the instants (ms) of the rows the exchange holds
  prev,        \* "replay": the call, responses and frame being repeated
  tpc,         \* transport GET: "idle" | "trying" | "returned" | "raised"
  max_retries, \* the client's max_retries
  attempt,     \* the for-loop variable of _request
  http_calls,  \* session.get calls made by the current GET
  sleeps,      \* time.sleep arguments (ms) of the current GET, in order
  outcomes,    \* what each session.get call of the current GET met
  terror,      \* the RuntimeError the current GET raised ("" for none)
  _REGISTRY,   \* the factory's name -> adapter class registry
  fname,       \* the name the last create_source call was given
  source,      \* the adapter the last create_source call returned
  ferror,      \* the ValueError the last create_source call raised
  creates,     \* create_source calls made so far
  constructed  \* adapter constructors run by create_source so far

fetchVars == <<pc, call, cursor, all_data, reqs, resps, table, args, error>>
envVars == <<mode, store, prev>>
transportVars ==
  <<tpc, max_retries, attempt, http_calls, sleeps, outcomes, terror>>
factoryVars == <<_REGISTRY, fname, source, ferror, creates, constructed>>
vars == <<fetchVars, envVars, transportVars, factoryVars>>

NoTable == [columns |-> <<"#none">>, rows |-> <<>>]
NoCall == [exchange |-> "", data_type |-> "", start_time |-> 0,
           end_time |-> 0]
NoPrev == [call |-> NoCall, resps |-> <<>>, table |-> NoTable]

\* a symbol, as far as the adapters' translations look at it: base, quote
\* and whether it is written with a dash
BTCUSDT == [base |-> "BTC", quote |-> "USDT", dashed |-> FALSE]
\* the arguments of a well-formed call: a symbol every adapter accepts, an
\* interval every adapter maps, integer millisecond times
GoodArgs == [symbol |-> BTCUSDT, interval |-> Interval,
             start_kind |-> "ms", end_kind |-> "ms"]

\* an exception: its class and the raise statement it comes from
Raised(kind, cause) == [kind |-> kind, cause |-> cause]
NoError == Raised("", "")

Loop == LoopOf(call.exchange, call.data_type)

\* to_milliseconds(int) = int(dt); the loops' own unit conversions
start_ms == call.start_time
end_ms == call.end_time
start_s == start_ms \div MsPerSec
end_s == end_ms \div MsPerSec

\* a response: the rows of the page, Kraken's `last` pointer, and Bybit's
\* nextPageCursor (a string; <<>> is the empty string)
Resp(rows, last, next) == [rows |-> rows, last |-> last, next |-> next]

(***************************************************************************)
(* The pagination loops.  XInit gives the cursor a loop starts with and    *)
(* whether its while-condition lets it issue a first request; XRequest the *)
(* parameters of the request it issues from the current cursor; XStep what *)
(* one iteration does with the response: the new cursor, the new           *)
(* accumulation list and whether the loop is left.                         *)
(***************************************************************************)
Locals(c, acc, stop) == [cursor |-> c, all_data |-> acc, stop |-> stop]

\* Binance kline row field [6] : close_time
CloseTime(t) == t + IntervalMs - 1

\* --- binance.py _paginate_klines / _paginate_records
Mut_BinanceRequest ==
  [startTime |-> start_ms, endTime |-> end_ms, limit |-> Limit]

BinanceRequest ==
  [startTime |-> cursor, endTime |-> end_ms, limit |-> Limit]

Mut_BinanceStep(data, lastTime) ==
  IF data = <<>> THEN Locals(cursor, all_data, TRUE)
  ELSE IF Len(data) <= Limit THEN Locals(cursor, all_data \o data, TRUE)
  ELSE LET current == lastTime + 1
       IN  Locals(current, all_data \o data, ~(current < end_ms))

BinanceStep(data, lastTime) ==
  IF data = <<>> THEN Locals(cursor, all_data, TRUE)
  ELSE IF Len(data) < Limit THEN Locals(cursor, all_data \o data, TRUE)
  ELSE LET current == lastTime + 1
       IN  Locals(current, all_data \o data, ~(current < end_ms))

BinancePaginateKlines(data) ==
  BinanceStep(data, IF data = <<>> THEN 0 ELSE CloseTime(data[Len(data)]))

BinancePaginateRecords(data) ==
  BinanceStep(data, IF data = <<>> THEN 0 ELSE data[Len(data)])

\* --- bybit.py _paginate_klines / _paginate_funding
BybitRequest == [start |-> start_ms, end |-> cursor, limit |-> Limit]

Mut_BybitPaginate(items) ==
  IF items = <<>> THEN Locals(cursor, SortAsc(all_data), TRUE)
  ELSE IF Len(items) < Limit
       THEN Locals(cursor, SortAsc(all_data \o items), TRUE)
  ELSE LET current_end == items[1] - 1
           left == ~(current_end > start_ms)
           acc == all_data \o items
       IN  Locals(current_end, IF left THEN SortAsc(acc) ELSE acc, left)

BybitPaginate(items) ==
  IF items = <<>> THEN Locals(cursor, SortAsc(all_data), TRUE)
  ELSE IF Len(items) < Limit
       THEN Locals(cursor, SortAsc(all_data \o items), TRUE)
  ELSE LET current_end == items[Len(items)] - 1
           left == ~(current_end > start_ms)
           acc == all_data \o items
       IN  Locals(current_end, IF left THEN SortAsc(acc) ELSE acc, left)

\* --- bybit.py _paginate_open_interest
BybitOiRequest ==
  [startTime |-> start_ms, endTime |-> end_ms, limit |-> Limit,
   cursor |-> cursor]

Mut_BybitPaginateOpenInterest(items, next) ==
  IF items = <<>> THEN Locals(cursor, all_data, TRUE)
  ELSE Locals(next, all_data \o items, next = <<>>)

BybitPaginateOpenInterest(items, next) ==
  IF items = <<>> THEN Locals(cursor, all_data, TRUE)
  ELSE Locals(next, all_data \o items, next = <<>> \/ Len(items) < Limit)

\* --- bybit.py _fetch_long_short_ratio : one request, no time parameters
BybitLsRequest == [limit |-> Limit]

Mut_BybitLongShortRatio(items) ==
  Locals(cursor,
         SelectSeq(items, LAMBDA t : t >= start_ms /\ t <= end_ms), TRUE)

BybitLongShortRatio(items) == Locals(cursor, items, TRUE)

\* --- okx.py _paginate_klines / _paginate_funding
OkxRequest == [after |-> cursor, limit |-> Limit]

OkxPaginate(data) ==
  IF data = <<>> THEN Locals(cursor, SortAsc(all_data), TRUE)
  ELSE LET oldest_ts == data[Len(data)]
           left == oldest_ts <= start_ms \/ Len(data) < Limit
           acc == all_data \o data
       IN  Locals(IF left THEN cursor ELSE oldest_ts,
                  IF left THEN SortAsc(acc) ELSE acc, left)

\* --- okx.py _paginate_rubik
OkxRubikRequest == [begin |-> start_ms, end |-> cursor]

OkxPaginateRubik(data) ==
  IF data = <<>> THEN Locals(cursor, SortAsc(all_data), TRUE)
  ELSE LET oldest_ts == data[Len(data)]
           left == oldest_ts <= start_ms \/ Len(data) < Limit
           acc == all_data \o data
       IN  Locals(IF left THEN cursor ELSE oldest_ts - 1,
                  IF left THEN SortAsc(acc) ELSE acc, left)

\* --- kraken.py _fetch_ohlcv (an absent pair key behaves as an empty page)
KrakenOhlcRequest == [since |-> cursor]

KrakenOhlc(rows, last) ==
  IF rows = <<>> THEN Locals(cursor, all_data, TRUE)
  ELSE LET kept == SelectSeq(rows, LAMBDA r : r < end_s)
       IN  IF last <= cursor THEN Locals(cursor, all_data \o kept, TRUE)
           ELSE Locals(last, all_data \o kept, ~(last < end_s))

\* --- kraken.py _fetch_funding_rate : one request, then the local filter
KrakenFundingRequest == [symbol |-> "symbol"]

Mut_KrakenFundingRate(rates) ==
  Locals(cursor,
         SelectSeq(rates, LAMBDA t : t >= start_ms /\ t <= end_ms), TRUE)

KrakenFundingRate(rates) ==
  Locals(cursor,
         SelectSeq(rates, LAMBDA t : t >= start_ms /\ t < end_ms), TRUE)

\* --- coinbase.py _paginate_candles
Mut_CoinbaseChunkEnd ==
  cursor + _INTERVAL_TO_GRANULARITY[Interval] * _MAX_CANDLES

CoinbaseChunkEnd ==
  Min(cursor + _INTERVAL_TO_GRANULARITY[Interval] * _MAX_CANDLES, end_s)

CoinbaseRequest == [start |-> cursor, end |-> CoinbaseChunkEnd]

Mut_CoinbasePaginate(data) ==
  IF data = <<>>
  THEN Locals(CoinbaseChunkEnd, all_data, ~(CoinbaseChunkEnd < end_s))
  ELSE Locals(CoinbaseChunkEnd, all_data \o data,
              ~(CoinbaseChunkEnd < end_s))

CoinbasePaginate(data) ==
  IF data = <<>> THEN Locals(cursor, all_data, TRUE)
  ELSE Locals(CoinbaseChunkEnd, all_data \o data,
              ~(CoinbaseChunkEnd < end_s))

\* --- phemex.py _paginate_klines
PhemexKlineRequest == [from |-> cursor, to |-> end_s]

Mut_PhemexPaginateKlines(rows) ==
  IF rows = <<>> THEN Locals(cursor, all_data, TRUE)
  ELSE LET next_start == rows[Len(rows)] + PhemexResolution[Interval]
       IN  Locals(next_start, all_data \o rows, ~(next_start < end_s))

PhemexPaginateKlines(rows) ==
  IF rows = <<>> THEN Locals(cursor, all_data, TRUE)
  ELSE LET next_start == rows[Len(rows)] + PhemexResolution[Interval]
       IN  IF next_start <= cursor
           THEN Locals(cursor, all_data \o rows, TRUE)
           ELSE Locals(next_start, all_data \o rows, ~(next_start < end_s))

\* --- phemex.py _paginate_funding_rate
PhemexFundingRequest == [start |-> cursor, end |-> end_ms, limit |-> Limit]

PhemexPaginateFunding(rows) ==
  IF rows = <<>> THEN Locals(cursor, all_data, TRUE)
  ELSE IF Len(rows) < Limit THEN Locals(cursor, all_data \o rows, TRUE)
  ELSE LET current == rows[Len(rows)] + 1
       IN  Locals(current, all_data \o rows, ~(current < end_ms))

\* --- upbit.py _paginate_candles ("to" is formatted to whole seconds)
UpbitRequest == [to |-> cursor \div MsPerSec, count |-> Limit]

MinOf(s) == CHOOSE x \in Range(s) : \A y \in Range(s) : x <= y

UpbitPaginate(data) ==
  IF data = <<>> THEN Locals(cursor, all_data, TRUE)
  ELSE LET filtered == SelectSeq(data, LAMBDA c : c >= start_ms)
           oldest_ms == MinOf(data)
       IN  IF Len(data) < Limit
           THEN Locals(cursor, all_data \o filtered, TRUE)
           ELSE IF oldest_ms <= start_ms
           THEN Locals(cursor, all_data \o filtered, TRUE)
           ELSE Locals(oldest_ms, all_data \o filtered, FALSE)

\* the request the running loop issues next
RequestOf(loop) ==
  CASE loop \in {"binance_klines", "binance_records"} -> BinanceRequest
    [] loop \in {"bybit_klines", "bybit_funding"} -> BybitRequest
    [] loop = "bybit_oi" -> BybitOiRequest
    [] loop = "bybit_ls" -> BybitLsRequest
    [] loop \in {"okx_klines", "okx_funding"} -> OkxRequest
    [] loop = "okx_rubik" -> OkxRubikRequest
    [] loop = "kraken_ohlc" -> KrakenOhlcRequest
    [] loop = "kraken_funding" -> KrakenFundingRequest
    [] loop = "coinbase_candles" -> CoinbaseRequest
    [] loop = "phemex_klines" -> PhemexKlineRequest
    [] loop = "phemex_funding" -> PhemexFundingRequest
    [] loop = "upbit_candles" -> UpbitRequest

\* all_data: list = [] : every call starts a new accumulation list
Mut_FreshList == all_data

FreshList == <<>>

\* the cursor a loop starts from and whether its while-condition holds at
\* entry, for a call with start s and end e (milliseconds)
LoopInit(loop, s, e) ==
  CASE loop \in {"binance_klines", "binance_records", "phemex_funding"} ->
         [cursor |-> s, enter |-> s < e]
    [] loop \in {"bybit_klines", "bybit_funding"} ->
         [cursor |-> e, enter |-> e > s]
    [] loop = "bybit_oi" -> [cursor |-> <<>>, enter |-> TRUE]
    [] loop \in {"okx_klines", "okx_funding", "okx_rubik", "upbit_candles"} ->
         [cursor |-> e, enter |-> TRUE]
    [] loop \in {"kraken_ohlc", "coinbase_candles", "phemex_klines"} ->
         [cursor |-> s \div MsPerSec,
          enter |-> s \div MsPerSec < e \div MsPerSec]
    [] loop \in {"bybit_ls", "kraken_funding"} ->
         [cursor |-> 0, enter |-> TRUE]

(***************************************************************************)
(* The exchange.  "free": any page within the bounds.  "fixed": the        *)
(* exchange holds the rows of `store` and answers a request with those in  *)
(* the request's window, in its native order, up to the page limit.        *)
(* "replay": the responses of the remembered call, in order.               *)
(***************************************************************************)
SeqsUpTo(S, n) == UNION {[1..k -> S] : k \in 0..n}

RECURSIVE SumLen(_)
SumLen(rs) == IF rs = <<>> THEN 0 ELSE Len(Head(rs).rows) + SumLen(Tail(rs))

RowTimes(loop, T) ==
  IF loop \in SecondLoops THEN {t \div MsPerSec : t \in T} ELSE T

FreeResps(loop) ==
  LET T == RowTimes(loop, Times)
      pages == SeqsUpTo(T, Min(Limit, MaxRows - SumLen(resps)))
  IN  CASE loop = "kraken_ohlc" ->
             {Resp(p, l, <<>>) : p \in pages, l \in T}
        [] loop = "bybit_oi" ->
             {Resp(p, 0, n) : p \in pages, n \in {<<>>, <<1>>, <<2>>}}
        [] OTHER -> {Resp(p, 0, <<>>) : p \in pages}

RECURSIVE AscSeq(_)
AscSeq(S) ==
  IF S = {} THEN <<>>
  ELSE LET m == CHOOSE x \in S : \A y \in S : x <= y
       IN  <<m>> \o AscSeq(S \ {m})

RECURSIVE DescSeq(_)
DescSeq(S) ==
  IF S = {} THEN <<>>
  ELSE LET m == CHOOSE x \in S : \A y \in S : x >= y
       IN  <<m>> \o DescSeq(S \ {m})

Take(s, n) == SubSeq(s, 1, Min(n, Len(s)))
Skip(s, n) == SubSeq(s, n + 1, Len(s))

Serve(loop, req) ==
  LET R == RowTimes(loop, store)
  IN  CASE loop \in {"binance_klines", "binance_records"} ->
             Resp(Take(AscSeq({t \in R : req.startTime <= t /\ t <= req.endTime}),
                       req.limit), 0, <<>>)
        [] loop \in {"bybit_klines", "bybit_funding"} ->
             Resp(Take(DescSeq({t \in R : req.start <= t /\ t <= req.end}),
                       req.limit), 0, <<>>)
        [] loop = "bybit_oi" ->
             LET all == DescSeq({t \in R : req.startTime <= t /\ t <= req.endTime})
                 skip == IF req.cursor = <<>> THEN 0 ELSE req.cursor[1]
                 page == Take(Skip(all, skip), req.limit)
                 served == skip + Len(page)
             IN  Resp(page, 0, IF served < Len(all) THEN <<served>> ELSE <<>>)
        [] loop = "bybit_ls" -> Resp(Take(DescSeq(R), req.limit), 0, <<>>)
        [] loop \in {"okx_klines", "okx_funding"} ->
             Resp(Take(DescSeq({t \in R : t < req.after}), req.limit), 0, <<>>)
        [] loop = "okx_rubik" ->
             Resp(Take(DescSeq({t \in R : req.begin <= t /\ t <= req.end}),
                       Limit), 0, <<>>)
        [] loop = "kraken_ohlc" ->
             LET all == AscSeq({t \in R : t >= req.since})
                 page == Take(all, Limit)
             IN  Resp(page,
                      IF Len(all) > Len(page) THEN all[Len(page) + 1]
                      ELSE IF page = <<>> THEN req.since
                      ELSE page[Len(page)], <<>>)
        [] loop = "kraken_funding" -> Resp(AscSeq(R), 0, <<>>)
        [] loop = "coinbase_candles" ->
             Resp(DescSeq({t \in R : req.start <= t /\ t <= req.end}), 0, <<>>)
        [] loop = "phemex_klines" ->
             Resp(Take(AscSeq({t \in R : req.from <= t /\ t <= req.to}),
                       Limit), 0, <<>>)
        [] loop = "phemex_funding" ->
             Resp(Take(AscSeq({t \in R : req.start <= t /\ t <= req.end}),
                       req.limit), 0, <<>>)
        [] loop = "upbit_candles" ->
             Resp(Take(DescSeq({t \in R : t \div MsPerSec < req.to}),
                       req.count), 0, <<>>)

Offered(loop) ==
  CASE mode = "free" -> FreeResps(loop)
    [] mode = "fixed" -> {Serve(loop, RequestOf(loop))}
    [] mode = "replay" ->
         IF Len(resps) < Len(prev.resps)
         THEN {prev.resps[Len(resps) + 1]} ELSE {}

ArgTimes == IF mode = "fixed" THEN StoreTimes ELSE Times

(***************************************************************************)
(* Argument handling of fetch() and the handlers, before the first request.*)
(***************************************************************************)
\* the calls with a defect in at least one argument: a symbol some
\* translation rejects, an interval no adapter maps or none at all, a time
\* string in no accepted format or a time of an unconvertible type
ArgSets ==
  [symbol : {BTCUSDT, [base |-> "BTC", quote |-> "KRW", dashed |-> FALSE],
             [base |-> "BTC", quote |-> "EUR", dashed |-> FALSE]},
   interval : {Interval, "7x", "None"},
   start_kind : {"ms", "bad_str", "bad_type"},
   end_kind : {"ms", "bad_str"}] \ {GoodArgs}

\* to_milliseconds(dt)
ToMilliseconds(kind) ==
  CASE kind = "ms" -> NoError
    [] kind = "bad_str" -> Raised("ValueError", "time")
    [] kind = "bad_type" -> Raised("TypeError", "time")

\* _to_inst_id / _to_index_inst_id / _to_ccy, _to_product_id,
\* _to_upbit_market; the other adapters pass the symbol on as it is
TranslateSymbol(ex, sym) ==
  LET ok == CASE ex = "okx" -> sym.quote \in {"USDT", "USD"}
              [] ex = "coinbase" -> sym.dashed \/ sym.quote \in {"USDT", "USD"}
              [] ex = "upbit" ->
                   sym.dashed \/ sym.quote \in {"KRW", "USDT", "BTC", "ETH"}
              [] OTHER -> TRUE
  IN  IF ok THEN NoError ELSE Raised("ValueError", "symbol")

\* the interval check of the handlers that have one; Binance, Bybit and OKX
\* pass the token on (Bybit and OKX through a conversion that never raises)
CheckInterval(ex, iv) ==
  IF ex \in {"kraken", "coinbase", "phemex", "upbit"}
     /\ iv \notin DOMAIN _INTERVAL_TO_GRANULARITY
  THEN Raised("ValueError", "interval")
  ELSE NoError

\* what each handler evaluates, in order, before its first request
Steps(ex, dt) ==
  CASE ex = "binance" -> <<"start", "end">>
    [] ex = "bybit" ->
         IF dt = "LONG_SHORT_RATIO" THEN <<>> ELSE <<"start", "end">>
    [] ex = "okx" -> <<"symbol", "start", "end">>
    [] ex = "kraken" ->
         IF dt = "OHLCV" THEN <<"interval", "start", "end">> ELSE <<>>
    [] ex = "coinbase" -> <<"interval", "symbol", "start", "end">>
    [] ex = "phemex" ->
         IF dt = "OHLCV" THEN <<"interval", "start", "end">>
         ELSE <<"start", "end">>
    [] ex = "upbit" -> <<"interval", "symbol", "start", "end">>

Check(step, ex, a) ==
  CASE step = "interval" -> CheckInterval(ex, a.interval)
    [] step = "symbol" -> TranslateSymbol(ex, a.symbol)
    [] step = "start" -> ToMilliseconds(a.start_kind)
    [] step = "end" -> ToMilliseconds(a.end_kind)

\* the first exception the steps raise, NoError when none does
RECURSIVE FirstError(_, _, _)
FirstError(steps, ex, a) ==
  IF steps = <<>> THEN NoError
  ELSE IF Check(Head(steps), ex, a) # NoError THEN Check(Head(steps), ex, a)
  ELSE FirstError(Tail(steps), ex, a)

\* the exception class fetch() raises for a data type it does not dispatch
UnsupportedKind(ex) ==
  CASE ex = "bybit" -> "NotImplementedError"
    [] ex \in {"okx", "phemex"} -> "ValueError"
    [] OTHER -> "KeyError"

(***************************************************************************)
(* Actions of fetch().                                                     *)
(***************************************************************************)
\* fetch() up to its first request: dispatch, argument conversion, the
\* loop's initialisation; a loop whose condition fails at entry returns
EnterLoop(ex, dt, s, e, a) ==
  LET loop == LoopOf(ex, dt)
      init == LoopInit(loop, s, e)
  IN  /\ call' = [exchange |-> ex, data_type |-> dt, start_time |-> s,
                  end_time |-> e]
      /\ args' = a
      /\ error' = NoError
      /\ cursor' = init.cursor
      /\ all_data' = FreshList
      /\ reqs' = <<>>
      /\ resps' = <<>>
      /\ pc' = IF init.enter THEN "paging" ELSE "done"
      /\ table' = IF init.enter THEN NoTable ELSE ToFrame(ex, dt, FreshList)

Enter(ex, dt, s, e) == EnterLoop(ex, dt, s, e, GoodArgs)

\* fetch() raising before any request
Reject(ex, dt, s, e, a, err) ==
  /\ call' = [exchange |-> ex, data_type |-> dt, start_time |-> s,
              end_time |-> e]
  /\ args' = a
  /\ error' = err
  /\ pc' = "raised"
  /\ UNCHANGED <<cursor, all_data, reqs, resps, table>>

\* fetch() of a data type the adapter does not dispatch
FetchUnsupported ==
  /\ pc = "idle"
  /\ \E ex \in Exchanges : \E dt \in DataTypes \ Dispatcher(ex) :
       Reject(ex, dt, 0, Tick, GoodArgs,
              Raised(UnsupportedKind(ex), "data_type"))
  /\ UNCHANGED <<envVars, transportVars, factoryVars>>

\* fetch() of a dispatched data type with a defective argument: the
\* handler raises at its first failing step, or reaches its loop
FetchArgs ==
  /\ pc = "idle"
  /\ \E ex \in Exchanges : \E dt \in Dispatcher(ex) : \E a \in ArgSets :
       LET err == FirstError(Steps(ex, dt), ex, a)
       IN  IF err = NoError
           THEN EnterLoop(ex, dt, 0, Tick, a)
           ELSE Reject(ex, dt, 0, Tick, a, err)
  /\ UNCHANGED <<envVars, transportVars, factoryVars>>

Fetch ==
  /\ pc = "idle"
  /\ \E ex \in Exchanges : \E dt \in Dispatcher(ex) :
       \E s \in ArgTimes, e \in ArgTimes : Enter(ex, dt, s, e)
  /\ UNCHANGED <<envVars, transportVars, factoryVars>>

\* one iteration: the request, the response, and what the loop does with it
Advance(resp, nxt) ==
  /\ reqs' = Append(reqs, RequestOf(Loop))
  /\ resps' = Append(resps, resp)
  /\ cursor' = nxt.cursor
  /\ all_data' = nxt.all_data
  /\ pc' = IF nxt.stop THEN "done" ELSE "paging"
  /\ table' = IF nxt.stop
              THEN ToFrame(call.exchange, call.data_type, nxt.all_data)
              ELSE NoTable
  /\ UNCHANGED <<call, args, error, envVars, transportVars, factoryVars>>

CanRequest(loop) == pc = "paging" /\ Loop = loop /\ Len(reqs) < MaxReq

BinanceKlinesPage ==
  /\ CanRequest("binance_klines")
  /\ \E r \in Offered(Loop) : Advance(r, BinancePaginateKlines(r.rows))

BinanceRecordsPage ==
  /\ CanRequest("binance_records")
  /\ \E r \in Offered(Loop) : Advance(r, BinancePaginateRecords(r.rows))

BybitKlinesPage ==
  /\ CanRequest("bybit_klines")
  /\ \E r \in Offered(Loop) : Advance(r, BybitPaginate(r.rows))

BybitFundingPage ==
  /\ CanRequest("bybit_funding")
  /\ \E r \in Offered(Loop) : Advance(r, BybitPaginate(r.rows))

BybitOpenInterestPage ==
  /\ CanRequest("bybit_oi")
  /\ \E r \in Offered(Loop) :
       Advance(r, BybitPaginateOpenInterest(r.rows, r.next))

BybitLongShortRatioPage ==
  /\ CanRequest("bybit_ls")
  /\ \E r \in Offered(Loop) : Advance(r, BybitLongShortRatio(r.rows))

OkxKlinesPage ==
  /\ CanRequest("okx_klines")
  /\ \E r \in Offered(Loop) : Advance(r, OkxPaginate(r.rows))

OkxFundingPage ==
  /\ CanRequest("okx_funding")
  /\ \E r \in Offered(Loop) : Advance(r, OkxPaginate(r.rows))

OkxRubikPage ==
  /\ CanRequest("okx_rubik")
  /\ \E r \in Offered(Loop) : Advance(r, OkxPaginateRubik(r.rows))

KrakenOhlcPage ==
  /\ CanRequest("kraken_ohlc")
  /\ \E r \in Offered(Loop) : Advance(r, KrakenOhlc(r.rows, r.last))

\* an exception raised by the handler after a response was received
RaiseAfter(resp, err) ==
  /\ reqs' = Append(reqs, RequestOf(Loop))
  /\ resps' = Append(resps, resp)
  /\ pc' = "raised"
  /\ error' = err
  /\ UNCHANGED <<call, args, cursor, all_data, table>>
  /\ UNCHANGED <<envVars, transportVars, factoryVars>>

\* _fetch_funding_rate converts start_time and end_time after the request,
\* and only when the response holds records
KrakenFundingPage ==
  /\ CanRequest("kraken_funding")
  /\ \E r \in Offered(Loop) :
       LET err == FirstError(<<"start", "end">>, call.exchange, args)
       IN  IF r.rows # <<>> /\ err # NoError
           THEN RaiseAfter(r, err)
           ELSE Advance(r, KrakenFundingRate(r.rows))

CoinbasePage ==
  /\ CanRequest("coinbase_candles")
  /\ \E r \in Offered(Loop) : Advance(r, CoinbasePaginate(r.rows))

PhemexKlinesPage ==
  /\ CanRequest("phemex_klines")
  /\ \E r \in Offered(Loop) : Advance(r, PhemexPaginateKlines(r.rows))

PhemexFundingPage ==
  /\ CanRequest("phemex_funding")
  /\ \E r \in Offered(Loop) : Advance(r, PhemexPaginateFunding(r.rows))

UpbitPage ==
  /\ CanRequest("upbit_candles")
  /\ \E r \in Offered(Loop) : Advance(r, UpbitPaginate(r.rows))

\* a request that raises: the transport gave up, or the response carried an
\* exchange-level error envelope; fetch() propagates it and returns nothing
Fail ==
  /\ pc = "paging"
  /\ mode # "replay"
  /\ Len(reqs) < MaxReq
  /\ reqs' = Append(reqs, RequestOf(Loop))
  /\ pc' = "raised"
  /\ error' = Raised("RuntimeError", "request")
  /\ UNCHANGED <<call, args, cursor, all_data, resps, table>>
  /\ UNCHANGED <<envVars, transportVars, factoryVars>>

\* --- the response wrappers (_api_get, _api_get_spot, _api_get_futures).
\* An envelope is written as the value of the field the wrapper tests:
\* "i.." an integer, "s.." a string, "[..]" a list, "none" an absent field.
EnvelopeLoops ==
  {"bybit_klines", "bybit_funding", "bybit_oi", "bybit_ls", "okx_klines",
   "okx_funding", "okx_rubik", "phemex_klines", "phemex_funding",
   "kraken_ohlc", "kraken_funding"}

Envelopes(loop) ==
  CASE loop \in {"bybit_klines", "bybit_funding", "bybit_oi", "bybit_ls",
                 "phemex_klines", "phemex_funding"} -> {"i0", "i10001", "none"}
    [] loop \in {"okx_klines", "okx_funding", "okx_rubik"} ->
         {"s0", "s51001", "none"}
    [] loop = "kraken_ohlc" -> {"[]", "[EGeneral]"}
    [] loop = "kraken_funding" -> {"success", "error", "none"}

\* the wrapper returns the payload (TRUE) or raises RuntimeError (FALSE)
Mut_EnvelopeOk(loop, env) ==
  CASE loop \in {"bybit_klines", "bybit_funding", "bybit_oi", "bybit_ls"} ->
         env = "i0"
    [] loop \in {"okx_klines", "okx_funding", "okx_rubik"} -> env = "s0"
    [] loop \in {"phemex_klines", "phemex_funding"} -> env \in {"i0", "none"}
    [] loop = "kraken_ohlc" -> env \in {"[]", "none"}
    [] loop = "kraken_funding" -> env = "success"

EnvelopeOk(loop, env) ==
  CASE loop \in {"bybit_klines", "bybit_funding", "bybit_oi", "bybit_ls"} ->
         env = "i0"
    [] loop \in {"okx_klines", "okx_funding", "okx_rubik"} -> env = "s0"
    [] loop \in {"phemex_klines", "phemex_funding"} ->
         (IF env = "none" THEN "i-1" ELSE env) = "i0"
    [] loop = "kraken_ohlc" -> env \in {"[]", "none"}
    [] loop = "kraken_funding" -> env = "success"

\* what the running loop does with a page
StepOf(loop, r) ==
  CASE loop = "binance_klines" -> BinancePaginateKlines(r.rows)
    [] loop = "binance_records" -> BinancePaginateRecords(r.rows)
    [] loop \in {"bybit_klines", "bybit_funding"} -> BybitPaginate(r.rows)
    [] loop = "bybit_oi" -> BybitPaginateOpenInterest(r.rows, r.next)
    [] loop = "bybit_ls" -> BybitLongShortRatio(r.rows)
    [] loop \in {"okx_klines", "okx_funding"} -> OkxPaginate(r.rows)
    [] loop = "okx_rubik" -> OkxPaginateRubik(r.rows)
    [] loop = "kraken_ohlc" -> KrakenOhlc(r.rows, r.last)
    [] loop = "kraken_funding" -> KrakenFundingRate(r.rows)
    [] loop = "coinbase_candles" -> CoinbasePaginate(r.rows)
    [] loop = "phemex_klines" -> PhemexPaginateKlines(r.rows)
    [] loop = "phemex_funding" -> PhemexPaginateFunding(r.rows)
    [] loop = "upbit_candles" -> UpbitPaginate(r.rows)

\* a response whose envelope is given and whose payload holds no rows: the
\* wrapper raises on it, or hands the empty payload to the loop
EnvelopePage ==
  /\ pc = "paging"
  /\ Loop \in EnvelopeLoops
  /\ Len(reqs) < MaxReq
  /\ \E env \in Envelopes(Loop) :
       LET r == [rows |-> <<>>, last |-> 0, next |-> <<>>, envelope |-> env]
       IN  IF EnvelopeOk(Loop, env)
           THEN Advance(r, StepOf(Loop, r))
           ELSE RaiseAfter(r, Raised("RuntimeError", "envelope"))

\* the same fetch() once more on the same adapter, the exchange answering
\* as it did the first time
Repeat ==
  /\ pc = "done"
  /\ mode = "free"
  /\ prev' = [call |-> call, resps |-> resps, table |-> table]
  /\ mode' = "replay"
  /\ store' = store
  /\ Enter(call.exchange, call.data_type, call.start_time, call.end_time)
  /\ UNCHANGED <<transportVars, factoryVars>>

Pages ==
  \/ BinanceKlinesPage \/ BinanceRecordsPage
  \/ BybitKlinesPage \/ BybitFundingPage \/ BybitOpenInterestPage
  \/ BybitLongShortRatioPage
  \/ OkxKlinesPage \/ OkxFundingPage \/ OkxRubikPage
  \/ KrakenOhlcPage \/ KrakenFundingPage
  \/ CoinbasePage
  \/ PhemexKlinesPage \/ PhemexFundingPage
  \/ UpbitPage

TransportIdle ==
  /\ tpc = "idle" /\ max_retries = 0 /\ attempt = 0 /\ http_calls = 0
  /\ sleeps = <<>> /\ outcomes = <<>> /\ terror = ""

FetchIdle ==
  /\ pc = "idle" /\ call = NoCall /\ cursor = 0 /\ all_data = <<>>
  /\ reqs = <<>> /\ resps = <<>> /\ table = NoTable
  /\ args = GoodArgs /\ error = NoError

NoSource == [cls |-> "", exchange |-> <<>>]
NoFactoryError == [kind |-> "", exchange |-> <<>>, supported |-> <<>>]

FactoryIdle ==
  /\ _REGISTRY = <<>> /\ fname = <<>> /\ source = NoSource
  /\ ferror = NoFactoryError /\ creates = 0 /\ constructed = 0

Init ==
  /\ FetchIdle /\ TransportIdle /\ FactoryIdle
  /\ mode = "free" /\ store = {} /\ prev = NoPrev

Next == Fetch \/ Pages \/ Fail

Spec == Init /\ [][Next]_vars

InitFixed ==
  /\ FetchIdle /\ TransportIdle /\ FactoryIdle
  /\ mode = "fixed" /\ store \in SUBSET StoreTimes /\ prev = NoPrev

SpecFixed == InitFixed /\ [][Next]_vars

NextRepeat == Fetch \/ Pages \/ Fail \/ Repeat

SpecRepeat == Init /\ [][NextRepeat]_vars

\* Coinbase fetches whose start and end are not on the window grid
OffGridTimes == {0, 1500, Tick \div 2, Tick + 1500, 2 * Tick + 999}

FetchCoinbase ==
  /\ pc = "idle"
  /\ \E s \in OffGridTimes, e \in OffGridTimes :
       Enter("coinbase", "OHLCV", s, e)
  /\ UNCHANGED <<envVars, transportVars, factoryVars>>

NextWindows == FetchCoinbase \/ CoinbasePage \/ Fail

SpecWindows == Init /\ [][NextWindows]_vars

NextEnvelope == Fetch \/ Pages \/ Fail \/ EnvelopePage

SpecEnvelope == Init /\ [][NextEnvelope]_vars

NextArgs == Fetch \/ FetchUnsupported \/ FetchArgs \/ Pages \/ Fail

SpecArgs == Init /\ [][NextArgs]_vars

\* the three candle loops that run while their cursor is before the end; a
\* loop iteration is synchronous code, so a loop that can run an iteration
\* eventually does
CursorLoops == {"phemex_klines", "kraken_ohlc", "coinbase_candles"}

FetchCandles ==
  /\ pc = "idle"
  /\ \E ex \in {"phemex", "kraken", "coinbase"} :
       \E s \in Times, e \in Times : Enter(ex, "OHLCV", s, e)
  /\ UNCHANGED <<envVars, transportVars, factoryVars>>

CandlePages == PhemexKlinesPage \/ KrakenOhlcPage \/ CoinbasePage

NextCursor == FetchCandles \/ CandlePages \/ Fail

SpecCursor == Init /\ [][NextCursor]_vars /\ WF_vars(CandlePages)

(***************************************************************************)
(* The transport: BinanceBaseClient._request, one GET with its retry loop. *)
(* Each action below is one pass through the body of                       *)
(*     for attempt in range(self.max_retries)                              *)
(* determined by what session.get met, up to the next session.get call or  *)
(* to the return/raise that ends the GET.                                  *)
(***************************************************************************)
\* HTTP statuses other than 200, 429 and 418, and the subclasses of
\* requests.exceptions.RequestException, the model draws from
OtherStatuses == {"400", "500"}
RequestExceptions == {"ConnectionError", "Timeout"}

\* range(self.max_retries) : the exclusive end of the attempt range
Mut_RangeEnd(m) == m + 1

RangeEnd(m) == m

\* wait = 2 ** (attempt + 1), seconds, written in milliseconds
Mut_Backoff(a) == (2 ^ a) * MsPerSec

Backoff(a) == (2 ^ (a + 1)) * MsPerSec

\* the call enters the for loop; an empty range falls through to the final
\* raise without any session.get
Get ==
  /\ tpc = "idle"
  /\ attempt' = 0
  /\ IF 0 < RangeEnd(max_retries)
     THEN tpc' = "trying" /\ terror' = ""
     ELSE tpc' = "raised" /\ terror' = "max_retries_exceeded"
  /\ UNCHANGED <<max_retries, http_calls, sleeps, outcomes>>
  /\ UNCHANGED <<fetchVars, envVars, factoryVars>>

\* session.get is called once more and meets outcome o
Called(o) ==
  /\ tpc = "trying"
  /\ http_calls' = http_calls + 1
  /\ outcomes' = Append(outcomes, o)
  /\ UNCHANGED <<max_retries, fetchVars, envVars, factoryVars>>

\* `continue` / end of the loop body: the next attempt, or the raise after
\* the loop when the range is used up
NextAttempt(err) ==
  /\ attempt' = attempt + 1
  /\ IF attempt + 1 < RangeEnd(max_retries)
     THEN tpc' = "trying" /\ terror' = ""
     ELSE tpc' = "raised" /\ terror' = err

Mut_Status200 ==
  /\ Called("200")
  /\ sleeps' = sleeps
  /\ tpc' = "returned"
  /\ UNCHANGED <<attempt, terror>>

Status200 ==
  /\ Called("200")
  /\ sleeps' = Append(sleeps, rate_limit_sleep)
  /\ tpc' = "returned"
  /\ UNCHANGED <<attempt, terror>>

Status429 ==
  /\ Called("429")
  /\ sleeps' = Append(sleeps, Backoff(attempt))
  /\ NextAttempt("max_retries_exceeded")

Mut_Status418 ==
  /\ Called("418")
  /\ sleeps' = Append(sleeps, Backoff(attempt))
  /\ NextAttempt("ip_banned")

Status418 ==
  /\ Called("418")
  /\ tpc' = "raised"
  /\ terror' = "ip_banned"
  /\ UNCHANGED <<attempt, sleeps>>

StatusOther ==
  /\ \E st \in OtherStatuses : Called(st)
  /\ tpc' = "raised"
  /\ terror' = "http_status"
  /\ UNCHANGED <<attempt, sleeps>>

RequestException ==
  /\ \E exc \in RequestExceptions : Called(exc)
  /\ IF attempt = max_retries - 1
     THEN /\ tpc' = "raised"
          /\ terror' = "request_failed"
          /\ UNCHANGED <<attempt, sleeps>>
     ELSE /\ sleeps' = Append(sleeps, Backoff(attempt))
          /\ NextAttempt("max_retries_exceeded")

\* what the message of each RuntimeError of _request is formatted from
ErrorNames(err) ==
  CASE err = "ip_banned" -> {"resp.text"}
    [] err = "http_status" -> {"resp.status_code", "resp.text"}
    [] err = "request_failed" -> {"max_retries", "exc"}
    [] err = "max_retries_exceeded" -> {"max_retries", "url"}
    [] OTHER -> {}

InitTransport ==
  /\ FetchIdle /\ FactoryIdle
  /\ mode = "free" /\ store = {} /\ prev = NoPrev
  /\ tpc = "idle" /\ max_retries \in 0..MaxRetriesBound
  /\ attempt = 0 /\ http_calls = 0
  /\ sleeps = <<>> /\ outcomes = <<>> /\ terror = ""

NextTransport ==
  Get \/ Status200 \/ Status429 \/ Status418 \/ StatusOther
      \/ RequestException

SpecTransport == InitTransport /\ [][NextTransport]_vars

(***************************************************************************)
(* The source factory (market_data/__init__.py).  Exchange names are       *)
(* sequences of characters, so that str.lower() and sorted() are computed. *)
(***************************************************************************)
Uppers == <<"A", "B", "C", "D", "E", "F", "G", "H", "I", "J", "K", "L", "M",
            "N", "O", "P", "Q", "R", "S", "T", "U", "V", "W", "X", "Y", "Z">>
Lowers == <<"a", "b", "c", "d", "e", "f", "g", "h", "i", "j", "k", "l", "m",
            "n", "o", "p", "q", "r", "s", "t", "u", "v", "w", "x", "y", "z">>

IndexIn(seq, c) == CHOOSE i \in 1..Len(seq) : seq[i] = c

\* str.lower()
LowerChar(c) == IF c \in Range(Uppers) THEN Lowers[IndexIn(Uppers, c)] ELSE c
Lower(name) == [i \in 1..Len(name) |-> LowerChar(name[i])]

\* the order of characters: upper-case letters before lower-case ones
Ord(c) ==
  IF c \in Range(Uppers) THEN IndexIn(Uppers, c)
  ELSE Len(Uppers) + IndexIn(Lowers, c)

\* a < b on strings
RECURSIVE StrLess(_, _)
StrLess(a, b) ==
  IF b = <<>> THEN FALSE
  ELSE IF a = <<>> THEN TRUE
  ELSE IF Head(a) = Head(b) THEN StrLess(Tail(a), Tail(b))
  ELSE Ord(Head(a)) < Ord(Head(b))

\* sorted(names)
RECURSIVE Mut_SortedNames(_)
Mut_SortedNames(S) ==
  IF Cardinality(S) <= 1 THEN <<>>
  ELSE LET m == CHOOSE x \in S : \A y \in S \ {x} : StrLess(x, y)
       IN  <<m>> \o Mut_SortedNames(S \ {m})

RECURSIVE SortedNames(_)
SortedNames(S) ==
  IF S = {} THEN <<>>
  ELSE LET m == CHOOSE x \in S : \A y \in S \ {x} : StrLess(x, y)
       IN  <<m>> \o SortedNames(S \ {m})

NameBinance == <<"b", "i", "n", "a", "n", "c", "e">>
NameBybit == <<"b", "y", "b", "i", "t">>
NameOkx == <<"o", "k", "x">>
NameKraken == <<"k", "r", "a", "k", "e", "n">>
NameCoinbase == <<"c", "o", "i", "n", "b", "a", "s", "e">>
NamePhemex == <<"p", "h", "e", "m", "e", "x">>
NameUpbit == <<"u", "p", "b", "i", "t">>

\* the `exchange` property of each adapter class
ExchangeOf(cls) ==
  CASE cls = "BinanceFuturesSource" -> NameBinance
    [] cls = "BybitFuturesSource" -> NameBybit
    [] cls = "OkxFuturesSource" -> NameOkx
    [] cls = "KrakenFuturesSource" -> NameKraken
    [] cls = "CoinbaseSource" -> NameCoinbase
    [] cls = "PhemexFuturesSource" -> NamePhemex
    [] cls = "UpbitSource" -> NameUpbit

\* the names create_source is called with
FactoryNames ==
  {NameBinance, NameBybit, NameOkx, NameKraken, NameCoinbase, NamePhemex,
   NameUpbit,
   <<"B", "i", "n", "a", "n", "c", "e">>, <<"K", "R", "A", "K", "E", "N">>,
   <<"B", "y", "b", "i", "t">>, <<"f", "t", "x">>}

\* _ensure_registry
Registered ==
  [n \in {NameBinance, NameKraken} |->
     IF n = NameBinance THEN "BinanceFuturesSource"
     ELSE "KrakenFuturesSource"]

Mut_EnsureRegistry(reg) == reg

EnsureRegistry(reg) == IF DOMAIN reg # {} THEN reg ELSE Registered

\* create_source(exchange)
CreateSource ==
  /\ creates < MaxCreates
  /\ pc \in {"idle", "done", "raised"}
  /\ \E name \in FactoryNames :
       LET reg == EnsureRegistry(_REGISTRY)
           key == Lower(name)
       IN  /\ _REGISTRY' = reg
           /\ fname' = name
           /\ creates' = creates + 1
           /\ IF key \in DOMAIN reg
              THEN /\ source' = [cls |-> reg[key],
                                 exchange |-> ExchangeOf(reg[key])]
                   /\ ferror' = NoFactoryError
                   /\ constructed' = constructed + 1
              ELSE /\ source' = NoSource
                   /\ ferror' = [kind |-> "ValueError", exchange |-> name,
                                 supported |-> SortedNames(DOMAIN reg)]
                   /\ constructed' = constructed
  /\ UNCHANGED <<fetchVars, envVars, transportVars>>

\* the exchange the factory-side fetches run against: no rows, or one
InitFactory ==
  /\ FetchIdle /\ TransportIdle /\ FactoryIdle
  /\ mode = "fixed" /\ store \in {{}, {Tick}} /\ prev = NoPrev

NextFactory == CreateSource \/ Fetch \/ Pages \/ Fail

SpecFactory == InitFactory /\ [][NextFactory]_vars

(***************************************************************************)
(* OKX long/short ratio conversion (okx.py _fetch_long_short_ratio, after  *)
(* pagination).  A number is an exact fraction [n, d]; d = 0 stands for    *)
(* the infinity a float division by zero yields.                           *)
(***************************************************************************)
Frac(n, d) == [n |-> n, d |-> d]
FracAdd(a, b) == Frac(a.n * b.d + b.n * a.d, a.d * b.d)
FracDiv(a, b) == Frac(a.n * b.d, a.d * b.n)

\* the ratios the exchange reports: 1.25, 1, 0, 1/3, 4, and -1
Ratios == {Frac(5, 4), Frac(1, 1), Frac(0, 1), Frac(1, 3), Frac(4, 1),
           Frac(-1, 1)}

\* rows [ts, ratio] as _paginate_rubik returns them
RawLsRows == [ts : Times, ratio : Ratios]

\* df["long_account"], df["short_account"] of one row
Mut_OkxLsAccounts(r) ==
  [long_account |-> FracDiv(Frac(1, 1), FracAdd(Frac(1, 1), r)),
   short_account |-> FracDiv(r, FracAdd(Frac(1, 1), r))]

OkxLsAccounts(r) ==
  [long_account |-> FracDiv(r, FracAdd(Frac(1, 1), r)),
   short_account |-> FracDiv(Frac(1, 1), FracAdd(Frac(1, 1), r))]

\* the frame built from a non-empty raw list
OkxLsFrame(raw) ==
  IF raw = <<>> THEN EmptyFrame
  ELSE [columns |-> OkxLsCols,
        rows |-> [i \in 1..Len(raw) |->
                    [timestamp |-> raw[i].ts,
                     long_short_ratio |-> raw[i].ratio,
                     long_account |-> OkxLsAccounts(raw[i].ratio).long_account,
                     short_account |->
                       OkxLsAccounts(raw[i].ratio).short_account]]]

\* the handler's conversion of the list pagination handed back
OkxLongShortRatioConvert ==
  /\ pc = "converting"
  /\ pc' = "done"
  /\ table' = OkxLsFrame(all_data)
  /\ UNCHANGED <<call, cursor, all_data, reqs, resps, args, error>>
  /\ UNCHANGED <<envVars, transportVars, factoryVars>>

\* pagination has returned a list of up to two rows, sorted by time
InitRatio ==
  /\ TransportIdle /\ FactoryIdle
  /\ mode = "free" /\ store = {} /\ prev = NoPrev
  /\ pc = "converting"
  /\ call = [exchange |-> "okx", data_type |-> "LONG_SHORT_RATIO",
             start_time |-> 0, end_time |-> MaxT * Tick]
  /\ cursor = 0 /\ reqs = <<>> /\ resps = <<>> /\ table = NoTable
  /\ args = GoodArgs /\ error = NoError
  /\ all_data \in UNION {[1..k -> RawLsRows] : k \in 0..2}
  /\ \A i \in 1..(Len(all_data) - 1) : all_data[i].ts <= all_data[i + 1].ts

SpecRatio == InitRatio /\ [][OkxLongShortRatioConvert]_vars

(***************************************************************************)
(* BinanceFuturesClient.get_agg_trades (binance_client/futures.py): one-    *)
(* hour chunks, each a windowed request followed, when the batch is full,  *)
(* by fromId requests.  The exchange holds one aggregated trade at each    *)
(* instant of `store`, with ids ascending in time; it answers a windowed   *)
(* request with the trades in the closed window and a fromId request with  *)
(* the trades from that id on, oldest first, up to the limit.  `cursor`    *)
(* holds the locals chunk_start and batch.                                 *)
(***************************************************************************)
HOUR_MS == 3600000

AggTimes == {k * HOUR_MS : k \in 0..MaxT}
AggStoreTimes == {(k * HOUR_MS) \div 2 : k \in 0..(2 * MaxT)}

\* the exchange's ledger: trade a (the id) happened at time T
Ledger ==
  LET ts == AscSeq(store)
  IN  [i \in 1..Len(ts) |-> [a |-> i, T |-> ts[i]]]

AggWindowRequest(chunk_start, chunk_end) ==
  [startTime |-> chunk_start, endTime |-> chunk_end, limit |-> Limit]

AggFromIdRequest(batch) ==
  [fromId |-> batch[Len(batch)].a + 1, limit |-> Limit]

AggServe(req) ==
  IF "fromId" \in DOMAIN req
  THEN Take(SelectSeq(Ledger, LAMBDA t : t.a >= req.fromId), req.limit)
  ELSE Take(SelectSeq(Ledger, LAMBDA t : req.startTime <= t.T
                                          /\ t.T <= req.endTime),
            req.limit)

AggCols == <<"timestamp", "agg_trade_id", "price", "quantity",
             "first_trade_id", "last_trade_id", "is_buyer_maker">>

\* the filter to the exact range and the frame built from what is left
AggFrame(data) ==
  LET kept == SelectSeq(data, LAMBDA t : start_ms <= t.T /\ t.T <= end_ms)
  IN  IF kept = <<>> THEN EmptyFrame
      ELSE [columns |-> AggCols,
            rows |-> [i \in 1..Len(kept) |->
                        [timestamp |-> kept[i].T,
                         agg_trade_id |-> kept[i].a]]]

AggChunkEnd == Min(cursor.chunk_start + HOUR_MS, end_ms)

\* get_agg_trades up to its first request
GetAggTrades ==
  /\ pc = "idle"
  /\ \E s \in AggTimes, e \in AggTimes :
       /\ call' = [exchange |-> "binance_client", data_type |-> "AGG_TRADES",
                   start_time |-> s, end_time |-> e]
       /\ cursor' = [chunk_start |-> s, batch |-> <<>>]
       /\ pc' = IF s < e THEN "chunk" ELSE "done"
       /\ table' = IF s < e THEN NoTable ELSE EmptyFrame
  /\ all_data' = <<>> /\ reqs' = <<>> /\ resps' = <<>>
  /\ args' = GoodArgs /\ error' = NoError
  /\ UNCHANGED <<envVars, transportVars, factoryVars>>

\* chunk_start = chunk_end and the outer while-condition: the next chunk,
\* or the filter and the frame
AggNextChunk(data) ==
  /\ cursor' = [chunk_start |-> AggChunkEnd, batch |-> <<>>]
  /\ all_data' = data
  /\ pc' = IF AggChunkEnd < end_ms THEN "chunk" ELSE "done"
  /\ table' = IF AggChunkEnd < end_ms THEN NoTable ELSE AggFrame(data)

\* the windowed request of a chunk
AggWindowPage ==
  /\ pc = "chunk"
  /\ LET req == AggWindowRequest(cursor.chunk_start, AggChunkEnd)
         batch == AggServe(req)
     IN  /\ reqs' = Append(reqs, req)
         /\ resps' = Append(resps, batch)
         /\ IF batch = <<>> THEN AggNextChunk(all_data)
            ELSE IF Len(batch) >= Limit
            THEN /\ cursor' = [cursor EXCEPT !.batch = batch]
                 /\ all_data' = all_data \o batch
                 /\ pc' = "fromId"
                 /\ table' = NoTable
            ELSE AggNextChunk(all_data \o batch)
  /\ UNCHANGED <<call, args, error, envVars, transportVars, factoryVars>>

\* one fromId request of the inner loop
AggFromIdPage ==
  /\ pc = "fromId"
  /\ LET req == AggFromIdRequest(cursor.batch)
         batch == AggServe(req)
         kept == SelectSeq(batch, LAMBDA t : t.T <= AggChunkEnd)
     IN  /\ reqs' = Append(reqs, req)
         /\ resps' = Append(resps, batch)
         /\ IF batch = <<>> THEN AggNextChunk(all_data)
            ELSE IF batch[1].T > AggChunkEnd THEN AggNextChunk(all_data)
            ELSE IF Len(kept) >= Limit
            THEN /\ cursor' = [cursor EXCEPT !.batch = kept]
                 /\ all_data' = all_data \o kept
                 /\ pc' = "fromId"
                 /\ table' = NoTable
            ELSE AggNextChunk(all_data \o kept)
  /\ UNCHANGED <<call, args, error, envVars, transportVars, factoryVars>>

InitAgg ==
  /\ FetchIdle /\ TransportIdle /\ FactoryIdle
  /\ mode = "fixed" /\ store \in SUBSET AggStoreTimes /\ prev = NoPrev

NextAgg == GetAggTrades \/ AggWindowPage \/ AggFromIdPage

SpecAgg == InitAgg /\ [][NextAgg]_vars

(***************************************************************************)
(* Properties.                                                             *)
(***************************************************************************)
Returned == pc = "done"
Last(s) == s[Len(s)]
IsAscending(s) == \A i \in 1..(Len(s) - 1) : s[i] <= s[i + 1]

RECURSIVE Flatten(_)
Flatten(rs) == IF rs = <<>> THEN <<>> ELSE Head(rs).rows \o Flatten(Tail(rs))

\* the instants (ms) of all rows received during the call, in arrival order
ReceivedInstants ==
  LET got == Flatten(resps)
  IN  [i \in 1..Len(got) |-> Instant(Loop, got[i])]

\* C1: whenever fetch returns a table with at least one row, its column
\* list is DataType.columns of the requested type, names and order alike,
\* for every adapter and every data type the adapter dispatches.
C1_CanonicalColumns ==
  (Returned /\ table.rows # <<>>) =>
    table.columns = Columns(call.data_type)

C1_Witness ==
  /\ Returned /\ call.exchange = "upbit" /\ Len(table.rows) >= 2
  /\ table.columns = Columns("OHLCV")

\* C2: when the first page is empty, fetch returns (no error) a table with
\* zero rows whose column list is DataType.columns of the requested type.
C2_EmptyFirstPageColumns ==
  (pc \in {"paging", "done"} /\ resps # <<>> /\ resps[1].rows = <<>>) =>
    /\ Returned
    /\ table.rows = <<>>
    /\ table.columns = Columns(call.data_type)

\* C3: the table returned by a newest-first adapter (Bybit, OKX, Coinbase,
\* Upbit) has non-decreasing timestamps, for any number of pages and any
\* order of the rows inside the pages.
NewestFirst == {"bybit", "okx", "coinbase", "upbit"}

C3_Ascending ==
  (Returned /\ call.exchange \in NewestFirst) => IsAscending(table.rows)

C3_Witness ==
  /\ Returned /\ call.exchange \in NewestFirst
  /\ Len(resps) >= 2
  /\ Len(table.rows) >= 3
  /\ ~IsAscending(ReceivedInstants)

\* C4: no row of the returned table has a timestamp earlier than startTime,
\* even when a page holds rows older than startTime.
C4_NoRowBeforeStart ==
  Returned => \A i \in 1..Len(table.rows) : table.rows[i] >= start_ms

\* C5: no row of the returned table has a timestamp equal to or later than
\* endTime, even when a page holds a row stamped at endTime or later.
C5_NoRowAtOrAfterEnd ==
  Returned => \A i \in 1..Len(table.rows) : table.rows[i] < end_ms

\* C6: Kraken FUNDING_RATE issues exactly one request, and a record of the
\* response is in the returned table if and only if
\* startTime <= record timestamp < endTime.
C6_KrakenFundingFilter ==
  (pc # "idle" /\ Loop = "kraken_funding") =>
    /\ pc = "paging" => reqs = <<>>
    /\ Returned =>
         /\ Len(reqs) = 1 /\ Len(resps) = 1
         /\ Range(table.rows) \subseteq Range(resps[1].rows)
         /\ \A t \in Range(resps[1].rows) :
              (t \in Range(table.rows)) <=> (start_ms <= t /\ t < end_ms)

C6_Witness ==
  /\ Returned /\ Loop = "kraken_funding"
  /\ \E t \in Range(resps[1].rows) : t \in Range(table.rows)
  /\ \E t \in Range(resps[1].rows) : t = end_ms

\* C7: against an exchange holding a fixed set of rows and answering each
\* request by its window, a fetch that returns has every row of the set
\* with startTime <= timestamp < endTime.
C7_CompleteOrRaises ==
  (mode = "fixed" /\ Returned) =>
    \A t \in store :
      (start_ms <= t /\ t < end_ms) => t \in Range(table.rows)

\* C8 (as stated): a limit-driven loop stops only on a page shorter than
\* the limit (or empty): having received k-1 full pages and then a short
\* one it has issued exactly k requests, and it returns the rows of all
\* pages.
LimitLoops == {"binance_klines", "binance_records", "bybit_klines",
               "bybit_funding", "okx_klines", "okx_funding", "okx_rubik",
               "upbit_candles", "phemex_funding"}

LimitCase == pc \in {"paging", "done"} /\ Loop \in LimitLoops
             /\ start_ms < end_ms

IsFull(page) == Len(page) = Limit

SameRows(a, b) == SortAsc(a) = SortAsc(b)

C8_StopsOnlyOnShortPage ==
  (LimitCase /\ Returned) =>
    /\ resps # <<>>
    /\ ~IsFull(Last(resps).rows)
    /\ \A i \in 1..(Len(resps) - 1) : IsFull(resps[i].rows)
    /\ Len(reqs) = Len(resps)
    /\ SameRows(table.rows, ReceivedInstants)

\* the boundary a full page is tested against: the cursor the loop derives
\* from the page's last row is still inside the requested range
CursorInside(page) ==
  CASE Loop = "binance_klines" -> Last(page) + IntervalMs < end_ms
    [] Loop \in {"binance_records", "phemex_funding"} ->
         Last(page) + 1 < end_ms
    [] Loop \in {"bybit_klines", "bybit_funding"} ->
         Last(page) - 1 > start_ms
    [] Loop \in {"okx_klines", "okx_funding", "okx_rubik"} ->
         Last(page) > start_ms
    [] Loop = "upbit_candles" ->
         \A i \in 1..Len(page) : page[i] > start_ms

Continues(page) == IsFull(page) /\ CursorInside(page)

\* C8 (amended): a limit-driven loop called with startTime < endTime goes
\* on exactly while pages are full and leave the cursor inside the range;
\* it stops at the first page that is short, empty, or full with the cursor
\* at or past the boundary, having issued one request per page, and
\* returns the rows of all pages (Upbit: those not older than startTime).
C8_Amended ==
  LimitCase =>
    /\ \A i \in 1..(Len(resps) - 1) : Continues(resps[i].rows)
    /\ Len(reqs) = Len(resps)
    /\ pc = "paging" => (resps = <<>> \/ Continues(Last(resps).rows))
    /\ Returned =>
         /\ resps # <<>>
         /\ ~Continues(Last(resps).rows)
         /\ SameRows(table.rows,
                     IF Loop = "upbit_candles"
                     THEN SelectSeq(ReceivedInstants,
                                    LAMBDA t : t >= start_ms)
                     ELSE ReceivedInstants)

C8_Witness ==
  /\ Returned /\ Loop = "binance_klines"
  /\ Len(resps) = 2 /\ Len(reqs) = 2
  /\ IsFull(resps[1].rows)
  /\ Len(resps[2].rows) = Limit - 1
  /\ Len(table.rows) = 2 * Limit - 1

RetriedOutcomes == {"429"} \cup RequestExceptions

C10_AttemptBudget ==
  /\ http_calls <= max_retries
  /\ http_calls = Len(outcomes)
  /\ \A i \in 1..(Len(outcomes) - 1) : outcomes[i] \in RetriedOutcomes
  /\ tpc = "trying" => http_calls < max_retries
  /\ (tpc # "idle" /\ http_calls = max_retries) =>
       IF outcomes # <<>> /\ Last(outcomes) = "200"
       THEN tpc = "returned" ELSE tpc = "raised"

C10_Witness ==
  /\ tpc = "raised" /\ max_retries >= 3 /\ http_calls = max_retries
  /\ "429" \in Range(outcomes)
  /\ Range(outcomes) \cap RequestExceptions # {}

\* C11: an attempt answered with HTTP 418, or with a status other than 200
\* and 429, ends the GET by raising on that attempt: it is the last
\* attempt made and no backoff sleep follows it, whatever budget remains.
FatalStatuses == {"418"} \cup OtherStatuses

C11_FatalStatusNoRetry ==
  \A i \in 1..Len(outcomes) :
    outcomes[i] \in FatalStatuses =>
      /\ i = Len(outcomes)
      /\ tpc = "raised"
      /\ terror = (IF outcomes[i] = "418" THEN "ip_banned" ELSE "http_status")
      /\ http_calls = i
      /\ Len(sleeps) = i - 1

C11_Witness ==
  /\ tpc = "raised" /\ max_retries = MaxRetriesBound
  /\ Len(outcomes) = 2 /\ outcomes[1] = "429" /\ outcomes[2] = "418"
  /\ Len(sleeps) = 1

\* C12: when attempt n (counted from 1) met a 429 or a request exception
\* and another attempt followed, the sleep between the two is 2^n seconds,
\* for both causes alike.
C12_BackoffDoubles ==
  \A n \in 1..(Len(outcomes) - 1) :
    /\ outcomes[n] \in RetriedOutcomes
    /\ Len(sleeps) >= n
    /\ sleeps[n] = (2 ^ n) * MsPerSec

C12_Witness ==
  /\ Len(outcomes) = 3
  /\ outcomes[1] = "429" /\ outcomes[2] \in RequestExceptions
  /\ sleeps[1] = 2 * MsPerSec /\ sleeps[2] = 4 * MsPerSec

\* C13: a GET that has used up its retry budget has raised one error whose
\* message identifies both the URL and the number of attempts, whether the
\* last failure was a 429 or a request exception.
BudgetExhausted ==
  /\ tpc = "raised" /\ max_retries > 0 /\ http_calls = max_retries
  /\ Last(outcomes) \in RetriedOutcomes

C13_ExhaustionNamesUrlAndAttempts ==
  BudgetExhausted => {"url", "max_retries"} \subseteq ErrorNames(terror)

\* C14: create_source given one of the seven exchange names, in any letter
\* case, returns an adapter whose `exchange` is the lower-case name.
SevenNames == {NameBinance, NameBybit, NameOkx, NameKraken, NameCoinbase,
               NamePhemex, NameUpbit}

C14_SevenExchangesCreated ==
  (creates > 0 /\ Lower(fname) \in SevenNames) =>
    /\ ferror = NoFactoryError
    /\ source.exchange = Lower(fname)

C16_RegistryLazyWriteOnce ==
  /\ []((creates = 0) <=> (DOMAIN _REGISTRY = {}))
  /\ [][(_REGISTRY' # _REGISTRY) => (creates = 0 /\ creates' = 1)]_vars

C16_Witness ==
  /\ creates = 2 /\ constructed = 0 /\ DOMAIN _REGISTRY # {}
  /\ pc = "done" /\ table.rows # <<>>

\* C17: fetch of a data type outside the adapter's supported set raises
\* at once: no request is issued and no table is returned.
SupportedTypes(ex) ==
  CASE ex \in {"upbit", "coinbase"} -> {"OHLCV"}
    [] ex \in {"phemex", "kraken"} -> {"OHLCV", "FUNDING_RATE"}
    [] OTHER -> Dispatcher(ex)

C17_UnsupportedTypeRaises ==
  (pc # "idle" /\ call.data_type \notin SupportedTypes(call.exchange)) =>
    /\ pc = "raised"
    /\ error.cause = "data_type"
    /\ reqs = <<>>
    /\ table = NoTable

C17_Witness ==
  /\ pc = "raised" /\ call.exchange = "upbit"
  /\ call.data_type = "FUNDING_RATE"
  /\ error = Raised("KeyError", "data_type") /\ reqs = <<>>

\* C18: within an adapter, the exception class raised for an unsupported
\* data type or interval differs from the classes the adapter raises for
\* a rejected symbol, an unconvertible time, a failed request or an error
\* envelope.
OtherKinds(ex) ==
  {TranslateSymbol(ex, a.symbol).kind : a \in ArgSets}
    \cup {ToMilliseconds(a.start_kind).kind : a \in ArgSets}
    \cup {"RuntimeError"}

C18_UnsupportedKindDistinct ==
  (pc = "raised" /\ error.cause \in {"data_type", "interval"}) =>
    error.kind \notin OtherKinds(call.exchange)

\* C19: fetch of an interval-parameterised data type with a missing or
\* unmapped interval issues no request and returns no table.
C19_UnknownIntervalRaises ==
  (pc # "idle" /\ call.data_type \in KlineTypes
     /\ call.data_type \in Dispatcher(call.exchange)
     /\ args.interval \notin DOMAIN _INTERVAL_TO_GRANULARITY) =>
    /\ reqs = <<>>
    /\ pc # "done"
    /\ table = NoTable

\* C20: fetch with an unconvertible start or end time, or a symbol the
\* adapter's translation rejects, issues no request and returns no table.
Malformed ==
  \/ ToMilliseconds(args.start_kind) # NoError
  \/ ToMilliseconds(args.end_kind) # NoError
  \/ TranslateSymbol(call.exchange, args.symbol) # NoError

C20_MalformedInputRaisesFirst ==
  (pc # "idle" /\ call.data_type \in Dispatcher(call.exchange)
     /\ Malformed) =>
    /\ reqs = <<>>
    /\ pc # "done"
    /\ table = NoTable

\* C21: a page response carrying an exchange-level error envelope makes
\* fetch raise at that page: it is the last response, no request follows
\* it, and no table is returned whatever earlier pages accumulated.
IsErrorEnvelope(loop, env) ==
  CASE loop \in {"bybit_klines", "bybit_funding", "bybit_oi", "bybit_ls"} ->
         env # "i0"
    [] loop \in {"okx_klines", "okx_funding", "okx_rubik"} -> env # "s0"
    [] loop \in {"phemex_klines", "phemex_funding"} -> env # "i0"
    [] loop = "kraken_ohlc" -> env = "[EGeneral]"
    [] loop = "kraken_funding" -> env # "success"
    [] OTHER -> FALSE

C21_EnvelopeRaises ==
  \A i \in 1..Len(resps) :
    ("envelope" \in DOMAIN resps[i]
       /\ IsErrorEnvelope(Loop, resps[i].envelope)) =>
      /\ i = Len(resps)
      /\ Len(reqs) = i
      /\ pc = "raised"
      /\ error = Raised("RuntimeError", "envelope")
      /\ table = NoTable

C21_Witness ==
  /\ pc = "raised" /\ error.cause = "envelope"
  /\ Loop = "phemex_klines"
  /\ Len(resps) = 3 /\ Last(resps).envelope = "none"
  /\ Len(all_data) >= 2

\* C22: no DataType value has both uses_interval and uses_period;
\* FUNDING_RATE has neither and every other value exactly one; every
\* value's column list is non-empty and contains "timestamp".  Stated for
\* every value, and so for the data type of the running call.
C22_GranularityFlags ==
  \A dt \in DataTypes \cup ({call.data_type} \ {""}) :
    /\ ~(uses_interval(dt) /\ uses_period(dt))
    /\ (dt = "FUNDING_RATE") <=> (~uses_interval(dt) /\ ~uses_period(dt))
    /\ Columns(dt) # <<>>
    /\ "timestamp" \in Range(Columns(dt))

C22_Witness ==
  /\ Returned /\ call.data_type = "FUNDING_RATE"
  /\ ~uses_interval(call.data_type) /\ ~uses_period(call.data_type)
  /\ table.rows # <<>> /\ "timestamp" \in Range(table.columns)

\* C23: in every non-empty returned table a column the exchange does not
\* supply holds one filler in every row, the null sentinel or zero for the
\* trade count, never a value copied or derived from another column.
C23_UnsuppliedColumnsFilled ==
  (Returned /\ table.rows # <<>>) =>
    \A i \in 1..Len(table.columns) :
      LET c == table.columns[i]
          fill == ColumnFill(call.exchange, call.data_type, c)
      IN  \/ fill \in {"field", "arg", "null"}
          \/ (c = "trades" /\ fill = "zero")

\* C24: in Binance's forward-cursor loops the first request carries
\* startTime = start, every later one startTime = (close time, or record
\* time, of the last row of the previous page) + 1, every request carries
\* endTime = end, and a request is issued only while the cursor is below
\* end and the previous page, if any, was full.
BinanceLoops == {"binance_klines", "binance_records"}

LastTimeOf(page) ==
  IF Loop = "binance_klines" THEN Last(page) + IntervalMs - 1 ELSE Last(page)

C24_BinanceForwardCursor ==
  (pc # "idle" /\ Loop \in BinanceLoops) =>
    /\ \A k \in 1..Len(reqs) :
         /\ reqs[k].endTime = end_ms
         /\ reqs[k].startTime < end_ms
         /\ IF k = 1 THEN reqs[k].startTime = start_ms
            ELSE /\ Len(resps[k - 1].rows) = Limit
                 /\ reqs[k].startTime = LastTimeOf(resps[k - 1].rows) + 1
    /\ pc = "paging" =>
         /\ cursor < end_ms
         /\ resps # <<>> => Len(Last(resps).rows) = Limit
    /\ Returned => Len(reqs) = Len(resps)

C24_Witness ==
  /\ Returned /\ Loop = "binance_klines"
  /\ Len(reqs) = 3
  /\ reqs[2].startTime > start_ms
  /\ reqs[3].startTime > reqs[2].startTime

\* C25 (as stated): in the backward walkers the upper boundary of request k+1 is taken
\* from the minimum-timestamp row of page k and lies strictly below the
\* boundary of request k, and a further request follows only a full page
\* whose oldest row is still after the requested start.
BackwardLoops == {"bybit_klines", "bybit_funding", "okx_klines",
                  "okx_funding", "okx_rubik", "upbit_candles"}

Boundary(req) ==
  CASE Loop \in {"bybit_klines", "bybit_funding", "okx_rubik"} -> req.end
    [] Loop \in {"okx_klines", "okx_funding"} -> req.after
    [] Loop = "upbit_candles" -> req.to

FromOldest(t) ==
  CASE Loop \in {"bybit_klines", "bybit_funding", "okx_rubik"} -> t - 1
    [] Loop \in {"okx_klines", "okx_funding"} -> t
    [] Loop = "upbit_candles" -> t \div MsPerSec

C25_BackwardBoundary ==
  (pc # "idle" /\ Loop \in BackwardLoops) =>
    \A k \in 2..Len(reqs) :
      LET page == resps[k - 1].rows
      IN  /\ Len(page) = Limit
          /\ MinOf(page) > start_ms
          /\ Boundary(reqs[k]) = FromOldest(MinOf(page))
          /\ Boundary(reqs[k]) < Boundary(reqs[k - 1])

\* the row of a page the walker derives the next boundary from
UsedRow(page) == IF Loop = "upbit_candles" THEN MinOf(page) ELSE Last(page)

IsDescending(s) == \A i \in 1..(Len(s) - 1) : s[i] >= s[i + 1]

\* row time t lies below boundary b, as the exchange's parameter defines it
Within(t, b) ==
  CASE Loop \in {"bybit_klines", "bybit_funding", "okx_rubik"} -> t <= b
    [] Loop \in {"okx_klines", "okx_funding"} -> t < b
    [] Loop = "upbit_candles" -> t \div MsPerSec < b

\* C25 (amended): the boundary of request k+1 is taken from the last row
\* of page k (Upbit: from its minimum-timestamp row); that row is the
\* oldest of the page when the page is newest-first, and the boundary is
\* strictly below that of request k when the row lies within it.  A
\* further request follows only a full page whose boundary row is still
\* after the requested start.
C25_Amended ==
  (pc # "idle" /\ Loop \in BackwardLoops) =>
    /\ \A k \in 2..Len(reqs) :
         LET page == resps[k - 1].rows
             used == UsedRow(page)
         IN  /\ Len(page) = Limit
             /\ IF Loop \in {"bybit_klines", "bybit_funding"}
                THEN FromOldest(used) > start_ms
                ELSE used > start_ms
             /\ Boundary(reqs[k]) = FromOldest(used)
             /\ IsDescending(page) => used = MinOf(page)
             /\ Within(used, Boundary(reqs[k - 1])) =>
                  Boundary(reqs[k]) < Boundary(reqs[k - 1])
    /\ Returned => Len(reqs) = Len(resps)

C25_Witness ==
  /\ Returned /\ Loop = "bybit_klines"
  /\ Len(reqs) = 2
  /\ resps[1].rows[1] > resps[1].rows[2]
  /\ reqs[2].end = resps[1].rows[2] - 1
  /\ reqs[2].end < reqs[1].end
  /\ resps[2].rows # <<>>

\* C26: in Bybit open-interest pagination the first request carries no
\* cursor, each later request carries the nextPageCursor of the response
\* just received, and a further request follows only a response whose list
\* is full and whose nextPageCursor is non-empty.
C26_BybitCursorChain ==
  (pc # "idle" /\ Loop = "bybit_oi") =>
    /\ \A k \in 1..Len(reqs) :
         IF k = 1 THEN reqs[k].cursor = <<>>
         ELSE /\ reqs[k].cursor = resps[k - 1].next
              /\ resps[k - 1].next # <<>>
              /\ Len(resps[k - 1].rows) = Limit
    /\ (pc = "paging" /\ resps # <<>>) =>
         /\ Last(resps).next # <<>>
         /\ Len(Last(resps).rows) = Limit
    /\ Returned => Len(reqs) = Len(resps)

C26_Witness ==
  /\ Returned /\ Loop = "bybit_oi" /\ Len(reqs) = 3
  /\ resps[1].next = <<2>> /\ resps[2].next = <<1>>
  /\ reqs[2].cursor = <<2>> /\ reqs[3].cursor = <<1>>

\* C27: Coinbase requests consecutive windows: the first starts at
\* floor(start / 1000) s, each ends at min(window start + granularity x 300,
\* end), each next one starts where the previous ended, and the number of
\* requests does not exceed ceil((end_s - start_s) / (granularity x 300))
\* (no request at all for an empty or inverted range).
Window == Granularity1m * _MAX_CANDLES

CeilDiv(a, b) == (a + b - 1) \div b

C27_CoinbaseWindows ==
  (pc # "idle" /\ Loop = "coinbase_candles") =>
    LET s0 == call.start_time \div 1000
        e0 == call.end_time \div 1000
        most == IF e0 > s0 THEN CeilDiv(e0 - s0, Window) ELSE 0
    IN  /\ \A k \in 1..Len(reqs) :
             /\ reqs[k].start = (IF k = 1 THEN s0 ELSE reqs[k - 1].end)
             /\ reqs[k].end = Min(reqs[k].start + Window, e0)
             /\ reqs[k].start < reqs[k].end
        /\ Len(reqs) <= most

C27_Witness ==
  /\ Returned /\ Loop = "coinbase_candles"
  /\ call.start_time = 1500 /\ call.end_time = 2 * Tick + 999
  /\ Len(reqs) = 2
  /\ reqs[1].start = 1 /\ reqs[1].end = 1 + Window
  /\ reqs[2].start = reqs[1].end
  /\ reqs[2].end = call.end_time \div 1000
  /\ reqs[2].end - reqs[2].start < Window

\* C28: a page with no rows that follows non-empty pages ends the fetch
\* normally: fetch has returned without error, issued no request after
\* it, and the table holds exactly the rows accumulated from the earlier
\* pages.
Accumulated ==
  LET got == ReceivedInstants
  IN  CASE Loop = "upbit_candles" -> SelectSeq(got, LAMBDA t : t >= start_ms)
        [] Loop = "kraken_ohlc" ->
             SelectSeq(got, LAMBDA t : t < end_s * MsPerSec)
        [] OTHER -> got

C28_EmptyPageEndsFetch ==
  (pc # "idle" /\ Len(resps) >= 2 /\ Last(resps).rows = <<>>
     /\ "envelope" \notin DOMAIN Last(resps)) =>
    /\ Returned
    /\ error = NoError
    /\ Len(reqs) = Len(resps)
    /\ \A k \in 1..(Len(resps) - 1) : resps[k].rows # <<>>
    /\ SameRows(table.rows, Accumulated)

C28_Witness ==
  /\ Returned /\ Loop = "phemex_klines"
  /\ Len(resps) = 3 /\ Last(resps).rows = <<>>
  /\ Len(table.rows) = 3

NoSortExchanges == {"binance", "phemex", "kraken"}

PagesChained ==
  /\ \A k \in 1..Len(resps) : IsAscending(resps[k].rows)
  /\ \A k \in 1..(Len(resps) - 1) :
       (resps[k].rows # <<>> /\ resps[k + 1].rows # <<>>) =>
         Last(resps[k].rows) <= resps[k + 1].rows[1]

C30_ConcatenationOfPages ==
  (Returned /\ call.exchange \in NoSortExchanges) =>
    /\ table.rows = ReceivedInstants
    /\ PagesChained => IsAscending(table.rows)

\* the rows of the pages the handler keeps, in arrival order
KeptInstants ==
  LET got == ReceivedInstants
  IN  CASE Loop = "kraken_ohlc" ->
             SelectSeq(got, LAMBDA t : t < end_s * MsPerSec)
        [] Loop = "kraken_funding" ->
             SelectSeq(got, LAMBDA t : t >= start_ms /\ t < end_ms)
        [] OTHER -> got

\* C30 (amended): Binance, Phemex and Kraken never reorder rows: the table
\* holds the rows of the pages in request order, Kraken leaving out the
\* OHLC rows at or after the end and the funding records outside
\* [start, end); it is non-decreasing when every page is ascending and no
\* page starts before the previous one's last row.
C30_Amended ==
  (Returned /\ call.exchange \in NoSortExchanges) =>
    /\ table.rows = KeptInstants
    /\ PagesChained => IsAscending(table.rows)

C30_Witness ==
  /\ Returned /\ Loop = "kraken_ohlc" /\ Len(resps) = 2
  /\ PagesChained
  /\ Len(table.rows) = 2
  /\ Len(ReceivedInstants) = 4

\* C31: every row of an OKX LONG_SHORT_RATIO table whose ratio r is not -1
\* has long_account + short_account = 1 and long_account = r x
\* short_account (that is, long_account = r/(1+r), short_account =
\* 1/(1+r)); r = 1.25 gives 0.5556 and 0.4444 to four decimals.
FracEq(a, b) == a.n * b.d = b.n * a.d
FracMul(a, b) == Frac(a.n * b.n, a.d * b.d)
Round4(q) == (2 * 10000 * q.n + q.d) \div (2 * q.d)

C31_OkxAccountsFromRatio ==
  (Returned /\ call.exchange = "okx"
     /\ call.data_type = "LONG_SHORT_RATIO" /\ all_data # <<>>
     /\ DOMAIN Head(all_data) = {"ts", "ratio"}) =>
    /\ Len(table.rows) = Len(all_data)
    /\ \A i \in 1..Len(table.rows) :
         LET row == table.rows[i]
             r == row.long_short_ratio
         IN  /\ r = all_data[i].ratio
             /\ r # Frac(-1, 1) =>
                  /\ row.long_account.d # 0 /\ row.short_account.d # 0
                  /\ FracEq(FracAdd(row.long_account, row.short_account),
                            Frac(1, 1))
                  /\ FracEq(row.long_account,
                            FracMul(r, row.short_account))
             /\ r = Frac(5, 4) =>
                  /\ Round4(row.long_account) = 5556
                  /\ Round4(row.short_account) = 4444

C31_Witness ==
  /\ Returned /\ call.exchange = "okx" /\ Len(table.rows) = 2
  /\ table.rows[1].long_short_ratio = Frac(5, 4)
  /\ Round4(table.rows[1].long_account) = 5556
  /\ table.rows[2].long_short_ratio = Frac(1, 3)


\* C32: the Phemex kline loop, the Kraken OHLC loop and the Coinbase window
\* loop end after finitely many requests whatever the server answers: an
\* iteration that does not leave the loop moves the cursor strictly forward
\* and leaves it before the end, and a running loop eventually returns or
\* raises.
C32_CursorLoopsTerminate ==
  /\ [][(pc = "paging" /\ pc' = "paging") =>
          (cursor' > cursor /\ cursor' < end_s)]_vars
  /\ [](pc = "paging" =>
          (Loop \in CursorLoops /\ start_s <= cursor /\ cursor < end_s))
  /\ (pc = "paging") ~> (pc \in {"done", "raised"})

\* a Phemex fetch that ended on a non-empty page that did not move the
\* cursor, after an earlier non-empty page had moved it
C32_Witness ==
  /\ Returned /\ Loop = "phemex_klines" /\ Len(reqs) = 2
  /\ \A i \in 1..2 : resps[i].rows # <<>>
  /\ reqs[2].from > reqs[1].from
  /\ Last(resps[2].rows) + PhemexResolution[Interval] <= reqs[2].from


\* C33: for every adapter and supported data type, a fetch whose start is
\* equal to or later than its end issues no request and returns an empty
\* table.
C33_EmptyRangeNoRequest ==
  (pc # "idle" /\ call.start_time >= call.end_time) =>
    (reqs = <<>> /\ (Returned => table = EmptyFrame))


\* C34: the transport GET never sleeps for backoff after its final
\* permitted attempt: whether the failed attempt met an HTTP 429 or a
\* network/timeout exception, every backoff sleep is followed by another
\* HTTP attempt, so a finished GET has slept for backoff fewer times than it
\* has called session.get.
BackoffSleeps == SelectSeq(sleeps, LAMBDA w : w # rate_limit_sleep)

C34_NoBackoffAfterFinalAttempt ==
  (tpc \in {"raised", "returned"} /\ http_calls > 0) =>
    Len(BackoffSleeps) < http_calls


\* C35: a Bybit LONG_SHORT_RATIO fetch issues exactly one request, whose
\* parameters carry neither the start nor the end time, never a second
\* one, and returns every row of that one response sorted ascending,
\* whatever start and end the caller passed.
TimeParams == {"start", "end", "startTime", "endTime", "begin", "after",
               "since", "from", "to"}

C35_BybitRatioOneRequest ==
  (pc # "idle" /\ Loop = "bybit_ls") =>
    /\ Len(reqs) <= 1
    /\ \A i \in 1..Len(reqs) : DOMAIN reqs[i] \cap TimeParams = {}
    /\ Returned =>
         /\ Len(reqs) = 1 /\ Len(resps) = 1
         /\ table.rows =
              SortAsc([i \in 1..Len(resps[1].rows) |->
                         Instant(Loop, resps[1].rows[i])])

\* a fetch over an empty range whose one response held two rows, newest
\* first
C35_Witness ==
  /\ Returned /\ Loop = "bybit_ls" /\ Len(reqs) = 1
  /\ call.start_time > call.end_time
  /\ Len(resps[1].rows) = 2 /\ resps[1].rows[1] > resps[1].rows[2]
  /\ table.rows = <<Instant(Loop, resps[1].rows[2]),
                    Instant(Loop, resps[1].rows[1])>>


\* C36: when the exchange answers each request with every candle whose time
\* lies in the closed request window, Coinbase OHLCV returns at most one
\* row per candle timestamp: a candle on the boundary shared by two
\* consecutive windows appears once.
C36_CoinbaseOneRowPerCandle ==
  (Returned /\ Loop = "coinbase_candles" /\ mode = "fixed") =>
    \A i \in 1..Len(table.rows) : \A j \in 1..Len(table.rows) :
       table.rows[i] = table.rows[j] => i = j


\* C37: when the exchange answers a windowed request with the trades in the
\* closed window, get_agg_trades returns each aggregated trade at most once
\* and only trades with start <= T <= end; a trade on the boundary between
\* two consecutive one-hour chunks is not duplicated, and an empty chunk
\* does not stop the later chunks from being requested.
WindowReqs == SelectSeq(reqs, LAMBDA r : "startTime" \in DOMAIN r)

C37_AggTradesOnce ==
  (Returned /\ call.data_type = "AGG_TRADES"
     /\ call.start_time < call.end_time) =>
    /\ \A i \in 1..Len(table.rows) : \A j \in 1..Len(table.rows) :
         table.rows[i].agg_trade_id = table.rows[j].agg_trade_id => i = j
    /\ \A i \in 1..Len(table.rows) :
         /\ start_ms <= table.rows[i].timestamp
         /\ table.rows[i].timestamp <= end_ms
    /\ WindowReqs # <<>>
    /\ WindowReqs[Len(WindowReqs)].endTime = end_ms

=============================================================================
